---- MODULE Spec2Model ----
(***************************************************************************)
(* A model of the haxball game: the Game session controller (game.ts), the *)
(* Network transport wrapper (network.ts) and the Physics engine           *)
(* (physics.ts), run by a small number of browser instances that reach     *)
(* each other through PeerJS data connections.                             *)
(*                                                                         *)
(* Numbers.  The code computes with IEEE doubles.  The model computes with *)
(* fixed-point integers: a length or a speed v of the code is the integer  *)
(* v * Scale, a unit vector has components in 1/Unit, a division rounds   *)
(* to the nearest integer and a scaling of a velocity (multiply) truncates *)
(* toward zero.  Comparisons against the thresholds of the code are made   *)
(* on these integers.                                                      *)
(***************************************************************************)
EXTENDS Integers, Sequences, FiniteSets, TLC

(***************************************************************************)
(* Bounds of the model.                                                    *)
(***************************************************************************)
Scale == 10        \* fixed-point resolution: 1 unit of the code = Scale
MaxPeers == 3      \* Peer objects created in one run (createRoom / joinRoom)
MaxQueue == 3      \* messages in flight on one direction of a connection
MaxTicks == 3      \* update() calls in one run
MaxOps == 4        \* user operations in one run: create, join, destroy, keydown
MaxSuffix == 2     \* characters of a room id after 'hax-' in a join input
MaxTries == 2      \* room ids drawn by one createRoom call
MaxLoops == 2      \* scheduled gameLoop callbacks counted per instance

Unit == 100 * Scale   \* a unit vector has length Unit

Instances == {1, 2}
Pids == 1..MaxPeers
NoPeer == 0   \* peer === null, localPlayerId === ''

(***************************************************************************)
(* GameConfig (Game constructor) and the literals of the code.             *)
(***************************************************************************)
fieldWidth == 1000
fieldHeight == 600
playerRadius == 25
ballRadius == 15
playerSpeed == 5
kickForce == 15
frictionPct == 95          \* friction: 0.95
goalWidth == 150
ballFrictionPermille == 985 \* 0.985 in updateBall
KickCooldownFrames == 20
KickRangeExtra == 25
ExtendedRangeExtra == 60
StartCountdown == 180
GoalCountdown == 120

(***************************************************************************)
(* Fixed-point helpers.                                                    *)
(***************************************************************************)
Abs(a) == IF a < 0 THEN -a ELSE a
Max(a, b) == IF a > b THEN a ELSE b
Min(a, b) == IF a < b THEN a ELSE b

\* a / b rounded to the nearest integer, symmetric around 0 (b > 0)
RoundDiv(a, b) ==
  IF a >= 0 THEN (2 * a + b) \div (2 * b) ELSE -((2 * (-a) + b) \div (2 * b))

\* a / b rounded toward 0 (b > 0)
TruncDiv(a, b) == IF a >= 0 THEN a \div b ELSE -((-a) \div b)

RECURSIVE SqrtSearch(_, _, _)
SqrtSearch(n, lo, hi) ==
  IF lo >= hi THEN lo
  ELSE LET mid == (lo + hi + 1) \div 2
       IN IF mid * mid <= n THEN SqrtSearch(n, mid, hi)
                            ELSE SqrtSearch(n, lo, mid - 1)

\* floor(sqrt(n)), Math.sqrt on the fixed-point grid
ISqrt(n) == SqrtSearch(n, 0, Min(n, 46340))

Vec(a, b) == [x |-> a, y |-> b]
Zero == Vec(0, 0)
\* a point given in units of the code
Pt(a, b) == Vec(a * Scale, b * Scale)

(***************************************************************************)
(* Physics: vector operations (physics.ts, static methods).                *)
(***************************************************************************)
add(a, b) == Vec(a.x + b.x, a.y + b.y)
subtract(a, b) == Vec(a.x - b.x, a.y - b.y)
\* v * (num / den)
multiply(v, num, den) == Vec(TruncDiv(v.x * num, den), TruncDiv(v.y * num, den))
magnitude(v) == ISqrt(v.x * v.x + v.y * v.y)

\* The precision factor keeps |v| * factor within the integer range.
NormFactor(m2) ==
  IF m2 < 2000 THEN 1000 ELSE IF m2 < 200000 THEN 100
  ELSE IF m2 < 20000000 THEN 10 ELSE 1

\* normalize: the zero vector for the zero vector, else v / |v| (in 1/Unit)
normalize(v) ==
  LET m2 == v.x * v.x + v.y * v.y
      f == NormFactor(m2)
      mag == ISqrt(m2 * f * f)
  IN IF m2 = 0 THEN Zero
     ELSE Vec(RoundDiv(v.x * Unit * f, mag), RoundDiv(v.y * Unit * f, mag))

distance(a, b) == magnitude(subtract(a, b))
\* dot of a vector with a unit vector (the result is in the vector's scale)
dot(a, n) == RoundDiv(a.x * n.x + a.y * n.y, Unit)

(***************************************************************************)
(* Physics: the instance methods.  A method that mutates its arguments is  *)
(* an operator returning the mutated values.                               *)
(***************************************************************************)
Clamp(lo, hi, v) == Max(lo, Min(hi, v))
goalTop == ((fieldHeight - goalWidth) * Scale) \div 2
goalBottom == ((fieldHeight + goalWidth) * Scale) \div 2
InGoalBand(pos) == pos.y > goalTop /\ pos.y < goalBottom

updatePlayer(player, input) ==
  LET acceleration == Vec((IF input.right THEN 1 ELSE 0) - (IF input.left THEN 1 ELSE 0),
                          (IF input.down THEN 1 ELSE 0) - (IF input.up THEN 1 ELSE 0))
      normalized == normalize(acceleration)
      v1 == add(player.velocity, multiply(normalized, playerSpeed * Scale, 2 * Unit))
      speed == magnitude(v1)
      v2 == IF speed > playerSpeed * Scale
            THEN multiply(normalize(v1), playerSpeed * Scale, Unit)
            ELSE v1
      v3 == multiply(v2, frictionPct, 100)
      p1 == add(player.position, v3)
      margin == playerRadius * Scale
      p2 == Vec(Clamp(margin, fieldWidth * Scale - margin, p1.x),
                Clamp(margin, fieldHeight * Scale - margin, p1.y))
  IN [player EXCEPT !.velocity = v3, !.position = p2,
        !.kickCooldown = IF @ > 0 THEN @ - 1 ELSE @]

updateBall(ball) ==
  LET radius == ballRadius * Scale
      p1 == add(ball.position, ball.velocity)
      v1 == multiply(ball.velocity, ballFrictionPermille, 1000)
      v2 == IF magnitude(v1) < Scale \div 10 THEN Zero ELSE v1
      \* left wall
      hitL == p1.x - radius < 0 /\ ~InGoalBand(p1)
      p3 == IF hitL THEN [p1 EXCEPT !.x = radius] ELSE p1
      v3 == IF hitL THEN [v2 EXCEPT !.x = TruncDiv(@ * (-8), 10)] ELSE v2
      \* right wall
      hitR == p3.x + radius > fieldWidth * Scale /\ ~InGoalBand(p3)
      p4 == IF hitR THEN [p3 EXCEPT !.x = fieldWidth * Scale - radius] ELSE p3
      v4 == IF hitR THEN [v3 EXCEPT !.x = TruncDiv(@ * (-8), 10)] ELSE v3
      \* top wall
      hitT == p4.y - radius < 0
      p5 == IF hitT THEN [p4 EXCEPT !.y = radius] ELSE p4
      v5 == IF hitT THEN [v4 EXCEPT !.y = TruncDiv(@ * (-8), 10)] ELSE v4
      \* bottom wall
      hitB == p5.y + radius > fieldHeight * Scale
      p6 == IF hitB THEN [p5 EXCEPT !.y = fieldHeight * Scale - radius] ELSE p5
      v6 == IF hitB THEN [v5 EXCEPT !.y = TruncDiv(@ * (-8), 10)] ELSE v5
  IN [position |-> p6, velocity |-> v6]

\* the ball after handlePlayerBallCollision(player, ball)
handlePlayerBallCollision(player, ball) ==
  LET dist == distance(player.position, ball.position)
      minDist == (playerRadius + ballRadius) * Scale
      normal == normalize(subtract(ball.position, player.position))
      overlap == minDist - dist
      pos == add(ball.position, multiply(normal, overlap + Scale, Unit))
      pSpeed == magnitude(player.velocity)
      vel == IF 10 * pSpeed > 3 * Scale
             THEN Vec(TruncDiv(ball.velocity.x * 7 + player.velocity.x * 4, 10),
                      TruncDiv(ball.velocity.y * 7 + player.velocity.y * 4, 10))
             ELSE add(ball.velocity, multiply(normal, Scale, 2 * Unit))
  IN IF dist < minDist THEN [position |-> pos, velocity |-> vel] ELSE ball

\* kick: [ok, player, ball] after the call
kick(player, ball) ==
  LET dist == distance(player.position, ball.position)
      kickRange == (playerRadius + ballRadius + KickRangeExtra) * Scale
      direction == normalize(subtract(ball.position, player.position))
  IN IF player.kickCooldown > 0 THEN [ok |-> FALSE, player |-> player, ball |-> ball]
     ELSE IF dist < kickRange
     THEN [ok |-> TRUE,
           player |-> [player EXCEPT !.kickCooldown = KickCooldownFrames, !.isKicking = TRUE],
           ball |-> [ball EXCEPT !.velocity =
                       add(@, multiply(direction, kickForce * Scale, Unit))]]
     ELSE [ok |-> FALSE, player |-> player, ball |-> ball]

kickWithExtendedRange(player, ball) ==
  LET dist == distance(player.position, ball.position)
      kickRange == (playerRadius + ballRadius + ExtendedRangeExtra) * Scale
      direction == normalize(subtract(ball.position, player.position))
  IN IF dist < kickRange
     THEN [ok |-> TRUE,
           player |-> [player EXCEPT !.kickCooldown = KickCooldownFrames],
           ball |-> [ball EXCEPT !.velocity =
                       add(@, multiply(direction, kickForce * Scale, Unit))]]
     ELSE [ok |-> FALSE, player |-> player, ball |-> ball]

\* 'red' | 'blue' | null
\* checkGoal with the goal band closed at both ends
checkGoalClosedBand(ball) ==
  LET radius == ballRadius * Scale
      band == ball.position.y >= goalTop /\ ball.position.y <= goalBottom
  IN IF ball.position.x - radius < 0 /\ band THEN "blue"
     ELSE IF ball.position.x + radius > fieldWidth * Scale /\ band THEN "red"
     ELSE "null"

checkGoal(ball) ==
  LET radius == ballRadius * Scale
  IN IF ball.position.x - radius < 0 /\ InGoalBand(ball.position) THEN "blue"
     ELSE IF ball.position.x + radius > fieldWidth * Scale /\ InGoalBand(ball.position)
     THEN "red"
     ELSE "null"

\* handlePlayerCollision moving each player by the whole overlap
handlePlayerCollisionFullShift(p1, p2) ==
  LET dist == distance(p1.position, p2.position)
      minDist == playerRadius * 2 * Scale
      normal == normalize(subtract(p2.position, p1.position))
      overlap == minDist - dist
      shift == multiply(normal, overlap, Unit)
      relativeVelocity == subtract(p1.velocity, p2.velocity)
      velocityAlongNormal == dot(relativeVelocity, normal)
      impulse == multiply(normal, velocityAlongNormal, 2 * Unit)
      q1 == [p1 EXCEPT !.position = subtract(@, shift),
                       !.velocity = IF velocityAlongNormal > 0 THEN subtract(@, impulse) ELSE @]
      q2 == [p2 EXCEPT !.position = add(@, shift),
                       !.velocity = IF velocityAlongNormal > 0 THEN add(@, impulse) ELSE @]
  IN IF dist < minDist /\ dist > 0 THEN <<q1, q2>> ELSE <<p1, p2>>

\* <<p1, p2>> after handlePlayerCollision(p1, p2)
handlePlayerCollision(p1, p2) ==
  LET dist == distance(p1.position, p2.position)
      minDist == playerRadius * 2 * Scale
      normal == normalize(subtract(p2.position, p1.position))
      overlap == minDist - dist
      shift == multiply(normal, overlap, 2 * Unit)
      relativeVelocity == subtract(p1.velocity, p2.velocity)
      velocityAlongNormal == dot(relativeVelocity, normal)
      impulse == multiply(normal, velocityAlongNormal, 2 * Unit)
      q1 == [p1 EXCEPT !.position = subtract(@, shift),
                       !.velocity = IF velocityAlongNormal > 0 THEN subtract(@, impulse) ELSE @]
      q2 == [p2 EXCEPT !.position = add(@, shift),
                       !.velocity = IF velocityAlongNormal > 0 THEN add(@, impulse) ELSE @]
  IN IF dist < minDist /\ dist > 0 THEN <<q1, q2>> ELSE <<p1, p2>>

(***************************************************************************)
(* State.                                                                  *)
(***************************************************************************)
VARIABLES
  \* Game (one per instance)
  gamePhase,       \* 'menu' | 'lobby' | 'playing'
  localPlayerId,   \* a peer id, NoPeer for ''
  players,         \* state.players: a Map in insertion order, as a sequence
  ball,            \* state.ball (its radius never changes and is left out)
  score,           \* state.score
  isPlaying,       \* state.isPlaying
  countdown,       \* state.countdown
  input,           \* InputState
  timers,          \* ids of the players whose isKicking reset timer is pending
  loops,           \* gameLoop callbacks scheduled with requestAnimationFrame
  \* Network (one per instance)
  peer,            \* this.peer, as its id (NoPeer for null)
  isHost,
  connections,     \* Map remote peer id -> DataConnection: pairs <<remote, local>>
  \* PeerJS: the peers and the data connections
  peerOwner,       \* the instance that created the Peer, 0 when not created
  peerAlive,       \* Peers not destroyed
  peerRoom,        \* Peers created by createRoom ('hax-XXXXXX')
  connOpen,        \* <<l, r>>: the DataConnection of peer l to peer r is open
  closing,         \* <<l, r>>: r closed it, the 'close' event at l is pending
  chan,            \* <<from, to>> -> messages in flight, oldest first
  \* bookkeeping
  ticks, ops,      \* events counted against MaxTicks and MaxOps
  last,            \* the operation that led to this state
  \* a createRoom or joinRoom promise and the closure of its executor
  pending,
  \* a call of a function on its own: the arguments, then the result
  call

gameVars == <<gamePhase, localPlayerId, players, ball, score, isPlaying, countdown,
              input, timers, loops>>
netVars == <<peer, isHost, connections>>
envVars == <<peerOwner, peerAlive, peerRoom, connOpen, closing, chan>>
auxVars == <<pending, call>>
vars == <<gameVars, netVars, envVars, ticks, ops, last, auxVars>>

Keys == {"d", " ", "t"}
NoMsg == [type |-> "none", data |-> <<>>]
Op(op, i, msg, key, scorer) ==
  [op |-> op, inst |-> i, msg |-> msg, key |-> key, scorer |-> scorer]

(***************************************************************************)
(* The players Map.                                                        *)
(***************************************************************************)
Ids(ps) == {ps[k].id : k \in 1..Len(ps)}
Has(ps, id) == id \in Ids(ps)
IndexOf(ps, id) == CHOOSE k \in 1..Len(ps) : ps[k].id = id
Get(ps, id) == ps[IndexOf(ps, id)]
\* Map.set: an existing key keeps its place
Put(ps, p) == IF Has(ps, p.id) THEN [ps EXCEPT ![IndexOf(ps, p.id)] = p] ELSE Append(ps, p)
Delete(ps, id) == SelectSeq(ps, LAMBDA p : p.id # id)
CountTeam(ps, team) == Cardinality({k \in 1..Len(ps) : ps[k].team = team})

(***************************************************************************)
(* Game: construction helpers.                                             *)
(***************************************************************************)
createBall == [position |-> Pt(fieldWidth \div 2, fieldHeight \div 2), velocity |-> Zero]

createPlayer(ps, id, name, team) ==
  LET playerCount == CountTeam(ps, team)
      side == IF playerCount % 2 = 0 THEN -50 ELSE 50
  IN [id |-> id,
      position |-> Pt(IF team = "red" THEN 150 + playerCount * 50
                      ELSE fieldWidth - 150 - playerCount * 50,
                      fieldHeight \div 2 + side * ((playerCount + 1) \div 2)),
      velocity |-> Zero, team |-> team, name |-> name,
      isKicking |-> FALSE, kickCooldown |-> 0]

SlotY(idx) ==
  fieldHeight \div 2 + (IF idx < 2 THEN -60 ELSE 60) * (IF idx % 2 = 0 THEN 1 ELSE -1)
    + ((idx \div 2) * 100 - 50)

RECURSIVE ResetFrom(_, _, _, _)
ResetFrom(ps, k, redIndex, blueIndex) ==
  IF k > Len(ps) THEN ps
  ELSE IF ps[k].team = "red"
  THEN ResetFrom([ps EXCEPT ![k].position = Pt(150 + (redIndex % 2) * 80, SlotY(redIndex)),
                            ![k].velocity = Zero], k + 1, redIndex + 1, blueIndex)
  ELSE ResetFrom([ps EXCEPT ![k].position = Pt(fieldWidth - 150 - (blueIndex % 2) * 80,
                                               SlotY(blueIndex)),
                            ![k].velocity = Zero], k + 1, redIndex, blueIndex + 1)

\* the players after resetPositions (the ball becomes createBall)
resetPositions(ps) == ResetFrom(ps, 1, 0, 0)

(***************************************************************************)
(* Strings, as sequences of characters, and the room id of joinRoom.       *)
(***************************************************************************)
toUpperCaseChar(c) ==
  CASE c = "a" -> "A" [] c = "b" -> "B" [] c = "h" -> "H" [] c = "x" -> "X"
    [] OTHER -> c
toUpperCase(str) == [k \in 1..Len(str) |-> toUpperCaseChar(str[k])]

RECURSIVE trimStart(_)
trimStart(str) ==
  IF str # <<>> /\ Head(str) = " " THEN trimStart(Tail(str)) ELSE str
RECURSIVE trimEnd(_)
trimEnd(str) ==
  IF str # <<>> /\ str[Len(str)] = " " THEN trimEnd(SubSeq(str, 1, Len(str) - 1)) ELSE str
trim(str) == trimEnd(trimStart(str))

startsWith(str, prefix) ==
  Len(str) >= Len(prefix) /\ SubSeq(str, 1, Len(prefix)) = prefix

\* String.replace with a string pattern: the first occurrence only
Occurrences(str, pattern) ==
  {k \in 1..(Len(str) - Len(pattern) + 1) : SubSeq(str, k, k + Len(pattern) - 1) = pattern}
replace(str, pattern, by) ==
  IF Occurrences(str, pattern) = {} THEN str
  ELSE LET k == CHOOSE j \in Occurrences(str, pattern) :
                  \A l \in Occurrences(str, pattern) : j <= l
       IN SubSeq(str, 1, k - 1) \o by \o SubSeq(str, k + Len(pattern), Len(str))

HaxLower == <<"h", "a", "x", "-">>
HaxUpper == <<"H", "A", "X", "-">>

\* Network.joinRoom: the id handed to peer.connect
normalizedRoomId(roomId) ==
  LET n1 == trim(toUpperCase(roomId))
      n2 == IF ~startsWith(n1, HaxUpper) THEN HaxLower \o n1 ELSE n1
  IN HaxLower \o replace(n2, HaxUpper, <<>>)

\* the join button: the value handed to game.joinRoom, <<>> when rejected
joinClickRoomId(value) == toUpperCase(trim(value))

(***************************************************************************)
(* Network: messages and send.                                             *)
(***************************************************************************)
PlayerUpdateMsg(p) ==
  [type |-> "player-update",
   data |-> [id |-> p.id, position |-> p.position, velocity |-> p.velocity,
             team |-> p.team, name |-> p.name, isKicking |-> p.isKicking]]
BallUpdateMsg(b) == [type |-> "ball-update", data |-> b]
ScoreUpdateMsg(s) == [type |-> "score-update", data |-> s]
GameStateMsg(ps, b, s, playing, cd) ==
  [type |-> "game-state",
   data |-> [players |-> ps, ball |-> b, score |-> s, isPlaying |-> playing,
             countdown |-> cd]]
KickMsg(id) == [type |-> "kick", data |-> [playerId |-> id]]
PlayerJoinMsg(p) == [type |-> "player-join", data |-> p]
PlayerLeaveMsg(id) == [type |-> "player-leave", data |-> [id |-> id]]

\* the open connections of a connections Map, as channels <<from, to>>
Targets(conns, open) == {<<c[2], c[1]>> : c \in conns} \cap open

\* send(message) for each message of msgs, in order: a broadcast
Broadcast(ch, targets, msgs) ==
  [e \in DOMAIN ch |-> IF e \in targets THEN ch[e] \o msgs ELSE ch[e]]

\* the bound on the messages in flight
HasRoom(ch, targets, n) == \A e \in targets : Len(ch[e]) + n <= MaxQueue

\* connections.set(remote, conn of the local peer)
SetConn(conns, remote, local) == {c \in conns : c[1] # remote} \cup {<<remote, local>>}
DeleteConn(conns, remote) == {c \in conns : c[1] # remote}

(***************************************************************************)
(* Game: the methods, as functions of the instance's Game state w (the     *)
(* record World(i)) and of network.isHosting.  Each returns the state      *)
(* after the call and the messages it handed to network.send, in order.    *)
(***************************************************************************)
World(i) ==
  [gamePhase |-> gamePhase[i], localPlayerId |-> localPlayerId[i],
   players |-> players[i], ball |-> ball[i], score |-> score[i],
   isPlaying |-> isPlaying[i], countdown |-> countdown[i], input |-> input[i],
   timers |-> timers[i], loops |-> loops[i]]

Res(w, out) == [w |-> w, out |-> out]

\* startGameLoop: gameLoop() runs once and schedules itself
startGameLoop(w) == [w EXCEPT !.loops = Min(@ + 1, MaxLoops)]

sendGameState(w) ==
  GameStateMsg(w.players, w.ball, w.score, w.isPlaying, w.countdown)

handlePlayerJoinSilent(w, hosting, playerData) ==
  LET player == [playerData EXCEPT !.isKicking = FALSE, !.kickCooldown = 0]
  IN Res([w EXCEPT !.players = Put(@, player), !.timers = @ \ {player.id}], <<>>)
handlePlayerJoin(w, hosting, playerData) ==
  LET player == [playerData EXCEPT !.isKicking = FALSE, !.kickCooldown = 0]
      w1 == [w EXCEPT !.players = Put(@, player), !.timers = @ \ {player.id}]
  IN Res(w1, IF hosting THEN <<sendGameState(w1)>> ELSE <<>>)

handlePlayerLeave(w, playerId) ==
  Res([w EXCEPT !.players = Delete(@, playerId), !.timers = @ \ {playerId}], <<>>)

\* handlePlayerUpdate that stores the data of an id it does not hold
handlePlayerUpdateUpsert(w, data) ==
  IF data.id = w.localPlayerId THEN Res(w, <<>>)
  ELSE IF Has(w.players, data.id)
  THEN Res([w EXCEPT !.players[IndexOf(w.players, data.id)] =
                [@ EXCEPT !.position = data.position, !.velocity = data.velocity,
                          !.team = data.team, !.isKicking = data.isKicking]], <<>>)
  ELSE Res([w EXCEPT !.players = Append(@, [id |-> data.id, position |-> data.position,
                velocity |-> data.velocity, team |-> data.team, name |-> data.name,
                isKicking |-> data.isKicking, kickCooldown |-> 0])], <<>>)

\* handlePlayerUpdate that writes the data into the entry of localPlayerId
handlePlayerUpdateToLocal(w, data) ==
  IF Has(w.players, data.id) /\ Has(w.players, w.localPlayerId)
  THEN Res([w EXCEPT !.players[IndexOf(w.players, w.localPlayerId)] =
                [@ EXCEPT !.position = data.position, !.velocity = data.velocity,
                          !.team = data.team, !.isKicking = data.isKicking]], <<>>)
  ELSE Res(w, <<>>)

handlePlayerUpdate(w, data) ==
  IF Has(w.players, data.id) /\ data.id # w.localPlayerId
  THEN Res([w EXCEPT !.players[IndexOf(w.players, data.id)] =
                [@ EXCEPT !.position = data.position, !.velocity = data.velocity,
                          !.team = data.team, !.isKicking = data.isKicking]], <<>>)
  ELSE Res(w, <<>>)

handleBallUpdate(w, data) ==
  Res([w EXCEPT !.ball = [position |-> data.position, velocity |-> data.velocity]], <<>>)

\* handleScoreUpdate adding the score received to the local one
handleScoreUpdateAdd(w, data) ==
  Res([w EXCEPT !.score = [red |-> @.red + data.red, blue |-> @.blue + data.blue]], <<>>)

handleScoreUpdate(w, data) == Res([w EXCEPT !.score = data], <<>>)

\* handleGameState that enters the game on any snapshot received in the lobby
handleGameStateAnySnapshot(w, data) ==
  LET w1 == [w EXCEPT !.players = data.players, !.timers = {}, !.ball = data.ball,
                      !.score = data.score, !.isPlaying = data.isPlaying,
                      !.countdown = data.countdown]
  IN IF w.gamePhase = "lobby"
     THEN Res(startGameLoop([w1 EXCEPT !.gamePhase = "playing"]), <<>>)
     ELSE Res(w1, <<>>)

handleGameState(w, data) ==
  LET w1 == [w EXCEPT !.players = data.players, !.timers = {}, !.ball = data.ball,
                      !.score = data.score, !.isPlaying = data.isPlaying,
                      !.countdown = data.countdown]
  IN IF data.isPlaying /\ w.gamePhase = "lobby"
     THEN Res(startGameLoop([w1 EXCEPT !.gamePhase = "playing"]), <<>>)
     ELSE Res(w1, <<>>)

\* handleRemoteKick without the isHosting test before the kick physics
handleRemoteKickAnyInstance(w, hosting, playerId) ==
  IF Has(w.players, playerId)
  THEN LET k == IndexOf(w.players, playerId)
           r == kickWithExtendedRange([w.players[k] EXCEPT !.isKicking = TRUE], w.ball)
       IN Res([w EXCEPT !.players[k] = r.player, !.ball = r.ball,
                        !.timers = @ \cup {playerId}], <<>>)
  ELSE Res(w, <<>>)

handleRemoteKick(w, hosting, playerId) ==
  IF Has(w.players, playerId)
  THEN LET k == IndexOf(w.players, playerId)
           player == [w.players[k] EXCEPT !.isKicking = TRUE]
           r == kickWithExtendedRange(player, w.ball)
       IN IF hosting
          THEN Res([w EXCEPT !.players[k] = r.player, !.ball = r.ball,
                             !.timers = @ \cup {playerId}], <<>>)
          ELSE Res([w EXCEPT !.players[k] = player, !.timers = @ \cup {playerId}], <<>>)
  ELSE Res(w, <<>>)

\* the handler without the isHosting test of the 'ball-update' case
onMessageBallAlways(w, hosting, message) ==
  CASE message.type = "player-join" -> handlePlayerJoin(w, hosting, message.data)
    [] message.type = "player-leave" -> handlePlayerLeave(w, message.data.id)
    [] message.type = "player-update" -> handlePlayerUpdate(w, message.data)
    [] message.type = "ball-update" -> handleBallUpdate(w, message.data)
    [] message.type = "score-update" -> handleScoreUpdate(w, message.data)
    [] message.type = "game-state" -> handleGameState(w, message.data)
    [] message.type = "kick" -> handleRemoteKick(w, hosting, message.data.playerId)
    [] OTHER -> Res(w, <<>>)

\* the handler registered in setupNetworkHandlers
onMessage(w, hosting, message) ==
  CASE message.type = "player-join" -> handlePlayerJoin(w, hosting, message.data)
    [] message.type = "player-leave" -> handlePlayerLeave(w, message.data.id)
    [] message.type = "player-update" -> handlePlayerUpdate(w, message.data)
    [] message.type = "ball-update" ->
         IF ~hosting THEN handleBallUpdate(w, message.data) ELSE Res(w, <<>>)
    [] message.type = "score-update" -> handleScoreUpdate(w, message.data)
    [] message.type = "game-state" -> handleGameState(w, message.data)
    [] message.type = "kick" -> handleRemoteKick(w, hosting, message.data.playerId)
    [] OTHER -> Res(w, <<>>)

\* handleKick taking cooldown and flag from the kick itself
handleKickIfConnected(w, hosting) ==
  IF Has(w.players, w.localPlayerId) /\ Get(w.players, w.localPlayerId).kickCooldown <= 0
  THEN LET k == IndexOf(w.players, w.localPlayerId)
           r == kick(w.players[k], w.ball)
       IN Res([w EXCEPT !.players[k] = r.player, !.ball = IF hosting THEN r.ball ELSE @,
                        !.timers = @ \cup {w.localPlayerId}],
              <<KickMsg(w.localPlayerId)>>)
  ELSE Res(w, <<>>)

handleKick(w, hosting) ==
  IF Has(w.players, w.localPlayerId) /\ Get(w.players, w.localPlayerId).kickCooldown <= 0
  THEN LET k == IndexOf(w.players, w.localPlayerId)
           r == kick(w.players[k], w.ball)
           p1 == IF hosting THEN r.player ELSE w.players[k]
           b1 == IF hosting THEN r.ball ELSE w.ball
       IN Res([w EXCEPT !.players[k] = [p1 EXCEPT !.kickCooldown = KickCooldownFrames,
                                                  !.isKicking = TRUE],
                        !.ball = b1, !.timers = @ \cup {w.localPlayerId}],
              <<KickMsg(w.localPlayerId)>>)
  ELSE Res(w, <<>>)

switchTeam(w) ==
  IF Has(w.players, w.localPlayerId)
  THEN LET k == IndexOf(w.players, w.localPlayerId)
           team == IF w.players[k].team = "red" THEN "blue" ELSE "red"
           ps1 == [w.players EXCEPT ![k].team = team]
           newPlayer == createPlayer(ps1, ps1[k].id, ps1[k].name, team)
           ps2 == [ps1 EXCEPT ![k].position = newPlayer.position]
       IN Res([w EXCEPT !.players = ps2], <<PlayerJoinMsg(ps2[k])>>)
  ELSE Res(w, <<>>)

\* startGame without resetPositions
startGameNoReset(w, hosting) ==
  IF ~hosting THEN Res(w, <<>>)
  ELSE LET w1 == [w EXCEPT !.countdown = StartCountdown, !.isPlaying = TRUE,
                           !.gamePhase = "playing"]
       IN Res(startGameLoop(w1), <<sendGameState(w1)>>)

startGame(w, hosting) ==
  IF ~hosting THEN Res(w, <<>>)
  ELSE LET w1 == [w EXCEPT !.countdown = StartCountdown, !.isPlaying = TRUE,
                           !.gamePhase = "playing",
                           !.ball = createBall, !.players = resetPositions(@)]
       IN Res(startGameLoop(w1), <<sendGameState(w1)>>)

\* the keydown listener of setupInputHandlers
keydown(w, hosting, key) ==
  IF w.gamePhase = "lobby" /\ key = "t" THEN switchTeam(w)
  ELSE IF w.gamePhase = "lobby" /\ key = " " /\ hosting THEN startGame(w, hosting)
  ELSE IF w.gamePhase = "playing"
  THEN CASE key = "w" -> Res([w EXCEPT !.input.up = TRUE], <<>>)
         [] key = "s" -> Res([w EXCEPT !.input.down = TRUE], <<>>)
         [] key = "a" -> Res([w EXCEPT !.input.left = TRUE], <<>>)
         [] key = "d" -> Res([w EXCEPT !.input.right = TRUE], <<>>)
         [] key = " " -> IF ~w.input.kick
                         THEN handleKick([w EXCEPT !.input.kick = TRUE], hosting)
                         ELSE Res(w, <<>>)
         [] OTHER -> Res(w, <<>>)
  ELSE Res(w, <<>>)

\* the keyup listener
keyup(w, key) ==
  CASE key = "w" -> [w EXCEPT !.input.up = FALSE]
    [] key = "s" -> [w EXCEPT !.input.down = FALSE]
    [] key = "a" -> [w EXCEPT !.input.left = FALSE]
    [] key = "d" -> [w EXCEPT !.input.right = FALSE]
    [] key = " " -> [w EXCEPT !.input.kick = FALSE]
    [] OTHER -> w

\* the field of InputState a key drives
Held(w, key) ==
  CASE key = "w" -> w.input.up
    [] key = "s" -> w.input.down
    [] key = "a" -> w.input.left
    [] key = "d" -> w.input.right
    [] key = " " -> w.input.kick
    [] OTHER -> FALSE

RECURSIVE BallCollisions(_, _, _)
\* this.state.players.forEach(player => handlePlayerBallCollision(player, ball))
BallCollisions(ps, b, k) ==
  IF k > Len(ps) THEN b ELSE BallCollisions(ps, handlePlayerBallCollision(ps[k], b), k + 1)

RECURSIVE PairCollisions(_, _, _)
\* for (i) for (j = i + 1) handlePlayerCollision(players[i], players[j])
PairCollisions(ps, a, b) ==
  IF a > Len(ps) THEN ps
  ELSE IF b > Len(ps) THEN PairCollisions(ps, a + 1, a + 2)
  ELSE LET r == handlePlayerCollision(ps[a], ps[b])
       IN PairCollisions([ps EXCEPT ![a] = r[1], ![b] = r[2]], a, b + 1)

\* the team whose goal the tick detects: checkGoal after the ball update and
\* the collisions ("null" when none, "frozen" during the countdown)
TickScorer(w, hosting) ==
  IF w.countdown > 0 THEN "frozen"
  ELSE IF ~hosting THEN "null"
  ELSE LET ps1 == IF Has(w.players, w.localPlayerId)
                  THEN [w.players EXCEPT ![IndexOf(w.players, w.localPlayerId)] =
                          updatePlayer(@, w.input)]
                  ELSE w.players
       IN checkGoal(BallCollisions(ps1, updateBall(w.ball), 1))

\* update without resetPositions after a goal
updateNoReset(w, hosting) ==
  IF w.countdown > 0
  THEN LET w1 == [w EXCEPT !.countdown = @ - 1]
       IN Res(w1, IF hosting THEN <<sendGameState(w1)>> ELSE <<>>)
  ELSE LET hasLocal == Has(w.players, w.localPlayerId)
           k == IndexOf(w.players, w.localPlayerId)
           ps1 == IF hasLocal THEN [w.players EXCEPT ![k] = updatePlayer(@, w.input)]
                  ELSE w.players
           out1 == IF hasLocal THEN <<PlayerUpdateMsg(ps1[k])>> ELSE <<>>
           b2 == BallCollisions(ps1, updateBall(w.ball), 1)
           ps2 == PairCollisions(ps1, 1, 2)
           scorer == checkGoal(b2)
       IN IF ~hosting THEN Res([w EXCEPT !.players = ps1], out1)
          ELSE IF scorer # "null"
          THEN LET s1 == [w.score EXCEPT ![scorer] = @ + 1]
               IN Res([w EXCEPT !.players = ps2, !.ball = b2,
                                !.score = s1, !.countdown = GoalCountdown],
                      out1 \o <<ScoreUpdateMsg(s1), BallUpdateMsg(b2)>>)
          ELSE Res([w EXCEPT !.players = ps2, !.ball = b2], out1 \o <<BallUpdateMsg(b2)>>)

\* update whose freeze branch broadcasts the state on every instance
updateFreezeBroadcast(w, hosting) ==
  IF w.countdown > 0
  THEN LET w1 == [w EXCEPT !.countdown = @ - 1]
       IN Res(w1, <<sendGameState(w1)>>)
  ELSE LET hasLocal == Has(w.players, w.localPlayerId)
           k == IndexOf(w.players, w.localPlayerId)
           ps1 == IF hasLocal THEN [w.players EXCEPT ![k] = updatePlayer(@, w.input)]
                  ELSE w.players
           out1 == IF hasLocal THEN <<PlayerUpdateMsg(ps1[k])>> ELSE <<>>
           b2 == BallCollisions(ps1, updateBall(w.ball), 1)
           ps2 == PairCollisions(ps1, 1, 2)
           scorer == checkGoal(b2)
       IN IF ~hosting THEN Res([w EXCEPT !.players = ps1], out1)
          ELSE IF scorer # "null"
          THEN LET s1 == [w.score EXCEPT ![scorer] = @ + 1]
               IN Res([w EXCEPT !.players = resetPositions(ps2), !.ball = createBall,
                                !.score = s1, !.countdown = GoalCountdown],
                      out1 \o <<ScoreUpdateMsg(s1), BallUpdateMsg(createBall)>>)
          ELSE Res([w EXCEPT !.players = ps2, !.ball = b2], out1 \o <<BallUpdateMsg(b2)>>)

update(w, hosting) ==
  IF w.countdown > 0
  THEN LET w1 == [w EXCEPT !.countdown = @ - 1]
       IN Res(w1, IF hosting THEN <<sendGameState(w1)>> ELSE <<>>)
  ELSE LET hasLocal == Has(w.players, w.localPlayerId)
           k == IndexOf(w.players, w.localPlayerId)
           ps1 == IF hasLocal THEN [w.players EXCEPT ![k] = updatePlayer(@, w.input)]
                  ELSE w.players
           out1 == IF hasLocal THEN <<PlayerUpdateMsg(ps1[k])>> ELSE <<>>
           b2 == BallCollisions(ps1, updateBall(w.ball), 1)
           ps2 == PairCollisions(ps1, 1, 2)
           scorer == checkGoal(b2)
       IN IF ~hosting THEN Res([w EXCEPT !.players = ps1], out1)
          ELSE IF scorer # "null"
          THEN LET s1 == [w.score EXCEPT ![scorer] = @ + 1]
               IN Res([w EXCEPT !.players = resetPositions(ps2), !.ball = createBall,
                                !.score = s1, !.countdown = GoalCountdown],
                      out1 \o <<ScoreUpdateMsg(s1), BallUpdateMsg(createBall)>>)
          ELSE Res([w EXCEPT !.players = ps2, !.ball = b2], out1 \o <<BallUpdateMsg(b2)>>)

(***************************************************************************)
(* The initial state: every instance right after new Game(...).            *)
(***************************************************************************)
NoInput == [up |-> FALSE, down |-> FALSE, left |-> FALSE, right |-> FALSE, kick |-> FALSE]
NoScore == [red |-> 0, blue |-> 0]

InitGame ==
  /\ gamePhase = [i \in Instances |-> "menu"]
  /\ localPlayerId = [i \in Instances |-> NoPeer]
  /\ players = [i \in Instances |-> <<>>]
  /\ ball = [i \in Instances |-> createBall]
  /\ score = [i \in Instances |-> NoScore]
  /\ isPlaying = [i \in Instances |-> FALSE]
  /\ countdown = [i \in Instances |-> 0]
  /\ input = [i \in Instances |-> NoInput]
  /\ timers = [i \in Instances |-> {}]
  /\ loops = [i \in Instances |-> 0]

InitNet ==
  /\ peer = [i \in Instances |-> NoPeer]
  /\ isHost = [i \in Instances |-> FALSE]
  /\ connections = [i \in Instances |-> {}]

InitEnv ==
  /\ peerOwner = [p \in Pids |-> 0]
  /\ peerAlive = {}
  /\ peerRoom = {}
  /\ connOpen = {}
  /\ closing = {}
  /\ chan = [e \in Pids \X Pids |-> <<>>]

\* no createRoom or joinRoom was called, no function is called on its own
NoCall == [kind |-> "none", room |-> NoPeer, taken |-> FALSE, stage |-> "none",
           connected |-> FALSE, timer |-> FALSE, settled |-> "none", tries |-> 0]
NoFn == [fn |-> "none", arg |-> <<>>, done |-> FALSE, res |-> <<>>]
InitAux ==
  /\ pending = [i \in Instances |-> NoCall]
  /\ call = NoFn

Init ==
  /\ InitGame /\ InitNet /\ InitEnv /\ InitAux
  /\ ticks = 0 /\ ops = 0
  /\ last = Op("init", 0, NoMsg, "", "null")

(***************************************************************************)
(* Actions.                                                                *)
(***************************************************************************)
\* the Game state of instance i becomes w
Apply(i, w) ==
  /\ gamePhase' = [gamePhase EXCEPT ![i] = w.gamePhase]
  /\ localPlayerId' = [localPlayerId EXCEPT ![i] = w.localPlayerId]
  /\ players' = [players EXCEPT ![i] = w.players]
  /\ ball' = [ball EXCEPT ![i] = w.ball]
  /\ score' = [score EXCEPT ![i] = w.score]
  /\ isPlaying' = [isPlaying EXCEPT ![i] = w.isPlaying]
  /\ countdown' = [countdown EXCEPT ![i] = w.countdown]
  /\ input' = [input EXCEPT ![i] = w.input]
  /\ timers' = [timers EXCEPT ![i] = w.timers]
  /\ loops' = [loops EXCEPT ![i] = w.loops]

\* the id the signaling server gives the next Peer
HasFreshPid == \E p \in Pids : peerOwner[p] = 0
FreshPid == CHOOSE p \in Pids : peerOwner[p] = 0 /\ \A q \in 1..(p - 1) : peerOwner[q] # 0

PlayerName == "Player"

\* Game.createRoom after network.createRoom() resolved with roomId
createRoomResolved(w, roomId) ==
  LET team == IF CountTeam(w.players, "red") <= CountTeam(w.players, "blue")
              THEN "red" ELSE "blue"
      player == createPlayer(w.players, roomId, PlayerName, team)
  IN [w EXCEPT !.localPlayerId = roomId, !.players = Put(@, player),
               !.timers = @ \ {roomId}, !.gamePhase = "lobby"]

\* Game.joinRoom after network.joinRoom() resolved, the Peer having id g
joinRoomResolved(w, g) ==
  LET player == createPlayer(w.players, g, PlayerName, "blue")
  IN Res([w EXCEPT !.localPlayerId = g, !.players = Put(@, player),
                   !.timers = @ \ {g}, !.gamePhase = "lobby"],
         <<PlayerJoinMsg(player)>>)

\* Game.createRoom with Network.createRoom: the Peer opens under a new room id
CreateRoom(i) ==
  /\ ops < MaxOps
  /\ HasFreshPid
  /\ LET roomId == FreshPid
         w == World(i)
     IN /\ peer' = [peer EXCEPT ![i] = roomId]
        /\ isHost' = [isHost EXCEPT ![i] = TRUE]
        /\ peerOwner' = [peerOwner EXCEPT ![roomId] = i]
        /\ peerAlive' = peerAlive \cup {roomId}
        /\ peerRoom' = peerRoom \cup {roomId}
        /\ Apply(i, createRoomResolved(w, roomId))
  /\ ops' = ops + 1
  /\ last' = Op("createRoom", i, NoMsg, "", "null")
  /\ UNCHANGED <<connections, connOpen, closing, chan, ticks, auxVars>>

\* Game.joinRoom with Network.joinRoom: a new Peer opens and its connection
\* to the room opens at both ends (handleConnection at the room's owner).
\* The room is one of another instance: a page joining a room that it hosts
\* itself is not modelled.
JoinRoom(i, roomId) ==
  /\ ops < MaxOps
  /\ HasFreshPid
  /\ roomId \in peerRoom \cap peerAlive
  /\ peerOwner[roomId] # i
  /\ LET g == FreshPid
         h == peerOwner[roomId]
         w == World(i)
         conns1 == [connections EXCEPT ![h] = SetConn(@, g, roomId)]
         conns2 == [conns1 EXCEPT ![i] = SetConn(@, roomId, g)]
         open1 == connOpen \cup {<<g, roomId>>, <<roomId, g>>}
         res == joinRoomResolved(w, g)
         targets == Targets(conns2[i], open1)
     IN /\ HasRoom(chan, targets, Len(res.out))
        /\ peer' = [peer EXCEPT ![i] = g]
        /\ peerOwner' = [peerOwner EXCEPT ![g] = i]
        /\ peerAlive' = peerAlive \cup {g}
        /\ connections' = conns2
        /\ connOpen' = open1
        /\ chan' = Broadcast(chan, targets, res.out)
        /\ Apply(i, res.w)
  /\ ops' = ops + 1
  /\ last' = Op("joinRoom", i, NoMsg, "", "null")
  /\ UNCHANGED <<isHost, peerRoom, closing, ticks, auxVars>>

Reverse(e) == <<e[2], e[1]>>

\* Game.destroy: cancelAnimationFrame and Network.disconnect.  Closing a
\* connection runs its 'close' listener at once; the other end learns of it
\* later (ConnClosed).
Destroy(i) ==
  /\ ops < MaxOps
  /\ peer[i] # NoPeer
  /\ LET w == World(i)
         mine == {Reverse(c) : c \in connections[i]} \cup {e \in connOpen : e[1] = peer[i]}
         closedNow == mine \cap connOpen
         left == {e[2] : e \in {f \in closedNow : f[1] \in peerRoom}}
     IN /\ connOpen' = connOpen \ closedNow
        /\ closing' = ((closing \ closedNow) \cup
                       ({Reverse(e) : e \in closedNow} \cap connOpen)) \ closedNow
        /\ chan' = [e \in DOMAIN chan |-> IF Reverse(e) \in closedNow THEN <<>> ELSE chan[e]]
        /\ Apply(i, [w EXCEPT !.players = SelectSeq(@, LAMBDA p : p.id \notin left),
                              !.timers = @ \ left,
                              !.loops = IF @ > 0 THEN @ - 1 ELSE @])
  /\ peerAlive' = peerAlive \ {peer[i]}
  /\ peer' = [peer EXCEPT ![i] = NoPeer]
  /\ isHost' = [isHost EXCEPT ![i] = FALSE]
  /\ connections' = [connections EXCEPT ![i] = {}]
  /\ ops' = ops + 1
  /\ last' = Op("destroy", i, NoMsg, "", "null")
  /\ pending' = [pending EXCEPT ![i] = IF @.kind = "none" THEN @
                                       ELSE [@ EXCEPT !.stage = "failed"]]
  /\ UNCHANGED <<peerOwner, peerRoom, ticks, call>>

\* the 'close' event of the connection of peer l to peer r, closed by r
ConnClosed(l, r) ==
  /\ <<l, r>> \in closing
  /\ LET i == peerOwner[l]
         w == World(i)
         leave == PlayerLeaveMsg(r)
     IN /\ connections' = [connections EXCEPT ![i] = DeleteConn(@, r)]
        /\ IF l \in peerRoom
           THEN /\ Apply(i, onMessage(w, isHost[i], leave).w)
                /\ last' = Op("recv", i, leave, "", "null")
           ELSE /\ UNCHANGED gameVars
                /\ last' = Op("closed", i, NoMsg, "", "null")
  /\ connOpen' = connOpen \ {<<l, r>>}
  /\ closing' = closing \ {<<l, r>>}
  /\ chan' = [chan EXCEPT ![<<r, l>>] = <<>>]
  /\ UNCHANGED <<peer, isHost, peerOwner, peerAlive, peerRoom, ticks, ops, auxVars>>

\* the 'data' event of the connection of peer q to peer p: the oldest
\* message in flight from p to q is handled by the owner of q
Deliver(p, q) ==
  /\ chan[<<p, q>>] # <<>>
  /\ <<q, p>> \in connOpen
  /\ LET i == peerOwner[q]
         message == Head(chan[<<p, q>>])
         res == onMessage(World(i), isHost[i], message)
         ch == [chan EXCEPT ![<<p, q>>] = Tail(@)]
         targets == Targets(connections[i], connOpen)
     IN /\ HasRoom(ch, targets, Len(res.out))
        /\ chan' = Broadcast(ch, targets, res.out)
        /\ Apply(i, res.w)
        /\ last' = Op("recv", i, message, "", "null")
  /\ UNCHANGED <<netVars, peerOwner, peerAlive, peerRoom, connOpen, closing, ticks, ops, auxVars>>

KeyDown(i, key) ==
  /\ ops < MaxOps
  /\ LET res == keydown(World(i), isHost[i], key)
         targets == Targets(connections[i], connOpen)
     IN /\ HasRoom(chan, targets, Len(res.out))
        /\ chan' = Broadcast(chan, targets, res.out)
        /\ Apply(i, res.w)
  /\ ops' = ops + 1
  /\ last' = Op("keydown", i, NoMsg, key, "null")
  /\ UNCHANGED <<netVars, peerOwner, peerAlive, peerRoom, connOpen, closing, ticks, auxVars>>

\* a keyup of a key whose InputState field is set (any other changes nothing)
KeyUp(i, key) ==
  /\ Held(World(i), key)
  /\ Apply(i, keyup(World(i), key))
  /\ last' = Op("keyup", i, NoMsg, key, "null")
  /\ UNCHANGED <<netVars, envVars, ticks, ops, auxVars>>

\* a frame of a scheduled gameLoop that is due: update()
Tick(i) ==
  /\ ticks < MaxTicks
  /\ loops[i] > 0
  /\ gamePhase[i] = "playing"
  /\ LET res == update(World(i), isHost[i])
         targets == Targets(connections[i], connOpen)
     IN /\ HasRoom(chan, targets, Len(res.out))
        /\ chan' = Broadcast(chan, targets, res.out)
        /\ Apply(i, res.w)
  /\ ticks' = ticks + 1
  /\ last' = Op("tick", i, NoMsg, "", TickScorer(World(i), isHost[i]))
  /\ UNCHANGED <<netVars, peerOwner, peerAlive, peerRoom, connOpen, closing, ops, auxVars>>

\* a frame of a scheduled gameLoop outside 'playing': the loop ends
LoopExit(i) ==
  /\ loops[i] > 0
  /\ gamePhase[i] # "playing"
  /\ Apply(i, [World(i) EXCEPT !.loops = @ - 1])
  /\ last' = Op("loopExit", i, NoMsg, "", "null")
  /\ UNCHANGED <<netVars, envVars, ticks, ops, auxVars>>

\* setTimeout(() => { player.isKicking = false; }, 100)
TimerFire(i, id) ==
  /\ id \in timers[i]
  /\ Apply(i, [World(i) EXCEPT !.timers = @ \ {id},
                 !.players[IndexOf(players[i], id)].isKicking = FALSE])
  /\ last' = Op("timer", i, NoMsg, "", "null")
  /\ UNCHANGED <<netVars, envVars, ticks, ops, auxVars>>

Next ==
  \/ \E i \in Instances : CreateRoom(i)
  \/ \E i \in Instances, r \in Pids : JoinRoom(i, r)
  \/ \E i \in Instances : Destroy(i)
  \/ \E l \in Pids, r \in Pids : ConnClosed(l, r)
  \/ \E p \in Pids, q \in Pids : Deliver(p, q)
  \/ \E i \in Instances, key \in Keys : KeyDown(i, key)
  \/ \E i \in Instances, key \in Keys : KeyUp(i, key)
  \/ \E i \in Instances : Tick(i)
  \/ \E i \in Instances : LoopExit(i)
  \/ \E i \in Instances, id \in Pids : TimerFire(i, id)

Spec == Init /\ [][Next]_vars

(***************************************************************************)
(* Play under way.  Reaching a goal from the kick-off takes the 180 frames *)
(* of the countdown and some hundred frames of play, so the second         *)
(* specification starts in the middle of a game: instance 1 created a room *)
(* (peer 1), started the game alone and has played for a while; instance 2 *)
(* was just constructed.  PlayCases are the ball and the host's player at  *)
(* that moment: the ball rolling into the left goal, into the right goal,  *)
(* against the left wall beside the goal, at rest within kick range, and   *)
(* beside the right wall just after the standing player touched it, and    *)
(* rolling into the top end of the right goal past the standing player.    *)
(***************************************************************************)
PlayCases ==
  { [ball |-> [position |-> Pt(20, 300), velocity |-> Pt(-10, 0)], at |-> Pt(100, 300)],
    [ball |-> [position |-> Pt(980, 300), velocity |-> Pt(10, 0)], at |-> Pt(880, 300)],
    [ball |-> [position |-> Pt(20, 100), velocity |-> Pt(-10, 0)], at |-> Pt(100, 300)],
    [ball |-> createBall, at |-> Pt(450, 300)],
    [ball |-> [position |-> Pt(984, 100), velocity |-> Vec(5, 0)], at |-> Pt(943, 100)],
    [ball |-> [position |-> Pt(980, 220), velocity |-> Pt(6, 6)], at |-> Pt(972, 262)] }

HostInst == CHOOSE i \in Instances : \A j \in Instances : i <= j
HostPid == CHOOSE p \in Pids : \A q \in Pids : p <= q

InitPlay ==
  \E c \in PlayCases :
    /\ gamePhase = [i \in Instances |-> IF i = HostInst THEN "playing" ELSE "menu"]
    /\ localPlayerId = [i \in Instances |-> IF i = HostInst THEN HostPid ELSE NoPeer]
    /\ players = [i \in Instances |->
                    IF i = HostInst
                    THEN <<[createPlayer(<<>>, HostPid, PlayerName, "red")
                              EXCEPT !.position = c.at]>>
                    ELSE <<>>]
    /\ ball = [i \in Instances |-> IF i = HostInst THEN c.ball ELSE createBall]
    /\ score = [i \in Instances |-> NoScore]
    /\ isPlaying = [i \in Instances |-> i = HostInst]
    /\ countdown = [i \in Instances |-> 0]
    /\ input = [i \in Instances |-> NoInput]
    /\ timers = [i \in Instances |-> {}]
    /\ loops = [i \in Instances |-> IF i = HostInst THEN 1 ELSE 0]
    /\ peer = [i \in Instances |-> IF i = HostInst THEN HostPid ELSE NoPeer]
    /\ isHost = [i \in Instances |-> i = HostInst]
    /\ connections = [i \in Instances |-> {}]
    /\ peerOwner = [p \in Pids |-> IF p = HostPid THEN HostInst ELSE 0]
    /\ peerAlive = {HostPid}
    /\ peerRoom = {HostPid}
    /\ connOpen = {}
    /\ closing = {}
    /\ chan = [e \in Pids \X Pids |-> <<>>]
    /\ ticks = 0
    /\ ops = 2         \* createRoom and the start-game key are behind
    /\ last = Op("init", 0, NoMsg, "", "null")
    /\ InitAux

SpecPlay == InitPlay /\ [][Next]_vars

(***************************************************************************)
(* A match of two.  The third specification starts in the middle of a game *)
(* between the host (instance 1, room peer 1) and one guest (instance 2,   *)
(* peer 2, connected to the room), both in 'playing' with the countdown    *)
(* over and the same state on both sides.  MatchCases are the ball and the *)
(* two players at that moment: the ball rolling into the left goal with    *)
(* the guest near the centre spot, and the ball at rest beside the guest.  *)
(***************************************************************************)
MatchCases ==
  { [ball |-> [position |-> Pt(20, 300), velocity |-> Pt(-10, 0)],
     host |-> Pt(100, 300), guest |-> Pt(450, 300)],
    [ball |-> [position |-> Pt(500, 300), velocity |-> Zero],
     host |-> Pt(150, 190), guest |-> Pt(560, 300)] }

GuestInst == CHOOSE i \in Instances : i # HostInst
GuestPid == CHOOSE p \in Pids : p # HostPid /\ \A q \in Pids \ {HostPid} : p <= q

InitMatch ==
  \E c \in MatchCases :
    LET both == <<[createPlayer(<<>>, HostPid, PlayerName, "red")
                     EXCEPT !.position = c.host],
                  [createPlayer(<<>>, GuestPid, PlayerName, "blue")
                     EXCEPT !.position = c.guest]>>
    IN /\ gamePhase = [i \in Instances |-> "playing"]
       /\ localPlayerId = [i \in Instances |-> IF i = HostInst THEN HostPid ELSE GuestPid]
       /\ players = [i \in Instances |-> both]
       /\ ball = [i \in Instances |-> c.ball]
       /\ score = [i \in Instances |-> NoScore]
       /\ isPlaying = [i \in Instances |-> TRUE]
       /\ countdown = [i \in Instances |-> 0]
       /\ input = [i \in Instances |-> NoInput]
       /\ timers = [i \in Instances |-> {}]
       /\ loops = [i \in Instances |-> 1]
       /\ peer = [i \in Instances |-> IF i = HostInst THEN HostPid ELSE GuestPid]
       /\ isHost = [i \in Instances |-> i = HostInst]
       /\ connections = [i \in Instances |->
                           IF i = HostInst THEN {<<GuestPid, HostPid>>}
                           ELSE {<<HostPid, GuestPid>>}]
       /\ peerOwner = [p \in Pids |-> IF p = HostPid THEN HostInst
                                      ELSE IF p = GuestPid THEN GuestInst ELSE 0]
       /\ peerAlive = {HostPid, GuestPid}
       /\ peerRoom = {HostPid}
       /\ connOpen = {<<HostPid, GuestPid>>, <<GuestPid, HostPid>>}
       /\ closing = {}
       /\ chan = [e \in Pids \X Pids |-> <<>>]
       /\ ticks = 0
       /\ ops = 3      \* createRoom, joinRoom and the start-game key are behind
       /\ last = Op("init", 0, NoMsg, "", "null")
       /\ InitAux

SpecMatch == InitMatch /\ [][Next]_vars

(***************************************************************************)
(* A match of two whose guest may have hosted before.  This specification  *)
(* starts in the middle of a game like the third one, the ball at rest     *)
(* beside the top wall, the host's player 80 away from it and the guest's  *)
(* far from both.  The guest is either a page that only joined, or a page  *)
(* that had created a room of its own (peer RoomOfGuest, still open)       *)
(* before it joined: createRoom set isHost, and joinRoom left it set.      *)
(***************************************************************************)
RoomOfGuest == CHOOSE p \in Pids : p \notin {HostPid, GuestPid}
RejoinBall == [position |-> Pt(900, 100), velocity |-> Zero]

InitRejoin ==
  \E hostedBefore \in BOOLEAN :
    LET both == <<[createPlayer(<<>>, HostPid, PlayerName, "red")
                     EXCEPT !.position = Pt(820, 100)],
                  [createPlayer(<<>>, GuestPid, PlayerName, "blue")
                     EXCEPT !.position = Pt(500, 400)]>>
    IN /\ gamePhase = [i \in Instances |-> "playing"]
       /\ localPlayerId = [i \in Instances |-> IF i = HostInst THEN HostPid ELSE GuestPid]
       /\ players = [i \in Instances |-> both]
       /\ ball = [i \in Instances |-> RejoinBall]
       /\ score = [i \in Instances |-> NoScore]
       /\ isPlaying = [i \in Instances |-> TRUE]
       /\ countdown = [i \in Instances |-> 0]
       /\ input = [i \in Instances |-> NoInput]
       /\ timers = [i \in Instances |-> {}]
       /\ loops = [i \in Instances |-> 1]
       /\ peer = [i \in Instances |-> IF i = HostInst THEN HostPid ELSE GuestPid]
       /\ isHost = [i \in Instances |-> i = HostInst \/ hostedBefore]
       /\ connections = [i \in Instances |->
                           IF i = HostInst THEN {<<GuestPid, HostPid>>}
                           ELSE {<<HostPid, GuestPid>>}]
       /\ peerOwner = [p \in Pids |->
                         IF p = HostPid THEN HostInst
                         ELSE IF p = GuestPid \/ (hostedBefore /\ p = RoomOfGuest)
                         THEN GuestInst ELSE 0]
       /\ peerAlive = {HostPid, GuestPid} \cup (IF hostedBefore THEN {RoomOfGuest} ELSE {})
       /\ peerRoom = {HostPid} \cup (IF hostedBefore THEN {RoomOfGuest} ELSE {})
       /\ connOpen = {<<HostPid, GuestPid>>, <<GuestPid, HostPid>>}
       /\ closing = {}
       /\ chan = [e \in Pids \X Pids |-> <<>>]
       /\ ticks = 0
       /\ ops = MaxOps - 1
       /\ last = Op("init", 0, NoMsg, "", "null")
       /\ InitAux

SpecRejoin == InitRejoin /\ [][Next]_vars

(***************************************************************************)
(* A page that joins its own room.  The menu stays on screen beside the    *)
(* lobby with the room id in it, and neither Network.joinRoom nor PeerJS   *)
(* refuse the id of a room of the same page.  joinRoom then opens a second *)
(* Peer which connects to the first; Network keeps one connections map, so *)
(* both ends of that connection are in it and send writes to both.  The    *)
(* specification starts with the game under way after such a join:         *)
(* instance 1 created its room (peer HostPid), joined it (peer SelfPid,    *)
(* the local player since), started the game and has played for a while;   *)
(* its local player stands within kick range of the ball at rest.          *)
(* Instance 2 was just constructed.  Every further join of an own room     *)
(* adds connections whose answers multiply, so a page joins itself once.   *)
(***************************************************************************)
SelfPid == GuestPid

JoinOwnRoom(i, roomId) ==
  /\ ops < MaxOps
  /\ HasFreshPid
  /\ roomId \in peerRoom \cap peerAlive
  /\ peerOwner[roomId] = i
  /\ \A c \in connections[i] : peerOwner[c[1]] # i
  /\ LET g == FreshPid
         w == World(i)
         conns == [connections EXCEPT ![i] = SetConn(SetConn(@, g, roomId), roomId, g)]
         open1 == connOpen \cup {<<g, roomId>>, <<roomId, g>>}
         res == joinRoomResolved(w, g)
         targets == Targets(conns[i], open1)
     IN /\ HasRoom(chan, targets, Len(res.out))
        /\ peer' = [peer EXCEPT ![i] = g]
        /\ peerOwner' = [peerOwner EXCEPT ![g] = i]
        /\ peerAlive' = peerAlive \cup {g}
        /\ connections' = conns
        /\ connOpen' = open1
        /\ chan' = Broadcast(chan, targets, res.out)
        /\ Apply(i, res.w)
  /\ ops' = ops + 1
  /\ last' = Op("joinRoom", i, NoMsg, "", "null")
  /\ UNCHANGED <<isHost, peerRoom, closing, ticks, auxVars>>

InitSelf ==
  LET both == <<[createPlayer(<<>>, HostPid, PlayerName, "red")
                   EXCEPT !.position = Pt(150, 300)],
                [createPlayer(<<>>, SelfPid, PlayerName, "blue")
                   EXCEPT !.position = Pt(550, 300)]>>
  IN /\ gamePhase = [i \in Instances |-> IF i = HostInst THEN "playing" ELSE "menu"]
     /\ localPlayerId = [i \in Instances |-> IF i = HostInst THEN SelfPid ELSE NoPeer]
     /\ players = [i \in Instances |-> IF i = HostInst THEN both ELSE <<>>]
     /\ ball = [i \in Instances |-> createBall]
     /\ score = [i \in Instances |-> NoScore]
     /\ isPlaying = [i \in Instances |-> i = HostInst]
     /\ countdown = [i \in Instances |-> 0]
     /\ input = [i \in Instances |-> NoInput]
     /\ timers = [i \in Instances |-> {}]
     /\ loops = [i \in Instances |-> IF i = HostInst THEN 1 ELSE 0]
     /\ peer = [i \in Instances |-> IF i = HostInst THEN SelfPid ELSE NoPeer]
     /\ isHost = [i \in Instances |-> i = HostInst]
     /\ connections = [i \in Instances |->
                         IF i = HostInst
                         THEN {<<SelfPid, HostPid>>, <<HostPid, SelfPid>>} ELSE {}]
     /\ peerOwner = [p \in Pids |-> IF p \in {HostPid, SelfPid} THEN HostInst ELSE 0]
     /\ peerAlive = {HostPid, SelfPid}
     /\ peerRoom = {HostPid}
     /\ connOpen = {<<HostPid, SelfPid>>, <<SelfPid, HostPid>>}
     /\ closing = {}
     /\ chan = [e \in Pids \X Pids |-> <<>>]
     /\ ticks = MaxTicks - 1
     /\ ops = MaxOps - 2
     /\ last = Op("init", 0, NoMsg, "", "null")
     /\ InitAux

NextSelf ==
  \/ Next
  \/ \E i \in Instances, r \in Pids : JoinOwnRoom(i, r)

SpecSelf == InitSelf /\ [][NextSelf]_vars

(***************************************************************************)
(* Connecting, step by step.  In the specifications above a createRoom or  *)
(* a joinRoom is over in one step, the Peer and the connection opening at  *)
(* once.  The fourth specification follows the promise of the call through  *)
(* the events of its Peer and connection, as the record pending[i]:        *)
(*   kind       'create' or 'join'                                         *)
(*   room       the peer a join connects to                                *)
(*   taken      the room id drawn by createRoom is in use at the server    *)
(*   stage      'peer': the Peer is not open yet; 'conn': peer.connect was *)
(*              called; 'open': the connection opened; 'failed': the Peer  *)
(*              raises no further event                                    *)
(*   connected  the variable of joinRoom's closure                         *)
(*   timer      the 15 s timer of joinRoom has not fired yet               *)
(*   settled    'pending', 'resolved' or 'rejected'                        *)
(*   tries      room ids drawn so far                                      *)
(* A page has one such call at a time: the next one starts once the        *)
(* promise of the one before is settled.  While this.peer is a Peer the    *)
(* server has not registered (yet), peer[i] is NoPeer.                     *)
(***************************************************************************)
\* resolve(..) and reject(..): a settled promise stays as it is
settle(p, outcome) == IF p.settled = "pending" THEN [p EXCEPT !.settled = outcome] ELSE p

\* Game.createRoom / Game.joinRoom when the awaited promise rejects
createRoomRejected(w) == w
\* Game.joinRoom that enters the lobby before it awaits
joinRoomRejectedInLobby(w) == [w EXCEPT !.gamePhase = "lobby"]
joinRoomRejected(w) == w

\* the handler without the retry
createOnErrorReject(errType) == "reject"
\* peer.on('error') of createRoom: what the handler does for an error type
createOnError(errType) == IF errType = "unavailable-id" THEN "retry" ELSE "reject"

\* the test of joinRoom's timer callback before it rejects
joinTimeoutRejects(connected, conns) == ~connected /\ conns = {}

AliveRooms == peerRoom \cap peerAlive

\* the create button: network.createRoom() draws a room id and makes a Peer
CreateStart(i, taken) ==
  /\ ops < MaxOps
  /\ pending[i].settled # "pending"
  /\ taken => AliveRooms # {}
  /\ pending' = [pending EXCEPT ![i] =
       [kind |-> "create", room |-> NoPeer, taken |-> taken, stage |-> "peer",
        connected |-> FALSE, timer |-> FALSE, settled |-> "pending", tries |-> 1]]
  /\ peer' = [peer EXCEPT ![i] = NoPeer]
  /\ ops' = ops + 1
  /\ last' = Op("createStart", i, NoMsg, "", "null")
  /\ UNCHANGED <<gameVars, isHost, connections, envVars, ticks, call>>

\* peer.on('open') of createRoom: the id was free
CreatePeerOpen(i) ==
  /\ pending[i].kind = "create" /\ pending[i].stage = "peer" /\ ~pending[i].taken
  /\ HasFreshPid
  /\ LET roomId == FreshPid
         resolved == pending[i].settled = "pending"
     IN /\ peer' = [peer EXCEPT ![i] = roomId]
        /\ isHost' = [isHost EXCEPT ![i] = TRUE]
        /\ peerOwner' = [peerOwner EXCEPT ![roomId] = i]
        /\ peerAlive' = peerAlive \cup {roomId}
        /\ peerRoom' = peerRoom \cup {roomId}
        /\ Apply(i, IF resolved THEN createRoomResolved(World(i), roomId) ELSE World(i))
  /\ pending' = [pending EXCEPT ![i] = [settle(@, "resolved") EXCEPT !.stage = "open"]]
  /\ last' = Op("createOpen", i, NoMsg, "", "null")
  /\ UNCHANGED <<connections, connOpen, closing, chan, ticks, ops, call>>

\* peer.on('error') of createRoom: 'unavailable-id' when the id drawn is in
\* use, any other type at any time before the Peer is open
CreatePeerError(i, errType, taken) ==
  /\ pending[i].kind = "create" /\ pending[i].stage = "peer"
  /\ errType = "unavailable-id" => pending[i].taken
  /\ IF createOnError(errType) = "retry"
     THEN /\ pending[i].tries < MaxTries
          /\ taken => AliveRooms # {}
          /\ pending' = [pending EXCEPT ![i] = [@ EXCEPT !.taken = taken, !.tries = @ + 1]]
          /\ UNCHANGED gameVars
     ELSE /\ ~taken
          /\ pending' = [pending EXCEPT ![i] = [settle(@, "rejected") EXCEPT !.stage = "failed"]]
          /\ Apply(i, IF pending[i].settled = "pending"
                      THEN createRoomRejected(World(i)) ELSE World(i))
  /\ last' = Op("createError", i, NoMsg, errType, "null")
  /\ UNCHANGED <<netVars, envVars, ticks, ops, call>>

\* the join button with value in the room id field, naming the peer room
JoinValues == {<<" ">>, <<"a">>}
JoinClick(i, value, room) ==
  /\ ops < MaxOps
  /\ pending[i].settled # "pending"
  /\ IF joinClickRoomId(value) = <<>>
     THEN /\ room = HostPid
          /\ last' = Op("joinClick", i, NoMsg, "rejected", "null")
          /\ UNCHANGED <<pending, peer>>
     ELSE /\ pending' = [pending EXCEPT ![i] =
               [kind |-> "join", room |-> room, taken |-> FALSE, stage |-> "peer",
                connected |-> FALSE, timer |-> TRUE, settled |-> "pending", tries |-> 0]]
          /\ peer' = [peer EXCEPT ![i] = NoPeer]
          /\ last' = Op("joinClick", i, NoMsg, "called", "null")
  /\ ops' = ops + 1
  /\ UNCHANGED <<gameVars, isHost, connections, envVars, ticks, call>>

\* peer.on('open') of joinRoom: the server registered the Peer; peer.connect
JoinPeerOpen(i) ==
  /\ pending[i].kind = "join" /\ pending[i].stage = "peer"
  /\ HasFreshPid
  /\ peer' = [peer EXCEPT ![i] = FreshPid]
  /\ peerOwner' = [peerOwner EXCEPT ![FreshPid] = i]
  /\ peerAlive' = peerAlive \cup {FreshPid}
  /\ pending' = [pending EXCEPT ![i].stage = "conn"]
  /\ last' = Op("joinPeerOpen", i, NoMsg, "", "null")
  /\ UNCHANGED <<gameVars, isHost, connections, peerRoom, connOpen, closing, chan,
                 ticks, ops, call>>

\* conn.on('open') of joinRoom, and of handleConnection at the room's owner
JoinConnOpen(i) ==
  /\ pending[i].kind = "join" /\ pending[i].stage = "conn"
  /\ pending[i].room \in AliveRooms
  /\ peerOwner[pending[i].room] # i
  /\ LET g == peer[i]
         roomId == pending[i].room
         h == peerOwner[roomId]
         conns1 == [connections EXCEPT ![h] = SetConn(@, g, roomId)]
         conns2 == [conns1 EXCEPT ![i] = SetConn(@, roomId, g)]
         open1 == connOpen \cup {<<g, roomId>>, <<roomId, g>>}
         resolved == pending[i].settled = "pending"
         res == IF resolved THEN joinRoomResolved(World(i), g) ELSE Res(World(i), <<>>)
         targets == Targets(conns2[i], open1)
     IN /\ HasRoom(chan, targets, Len(res.out))
        /\ connections' = conns2
        /\ connOpen' = open1
        /\ chan' = Broadcast(chan, targets, res.out)
        /\ Apply(i, res.w)
  /\ pending' = [pending EXCEPT ![i] =
                   [settle(@, "resolved") EXCEPT !.stage = "open", !.connected = TRUE]]
  /\ last' = Op("joinConnOpen", i, NoMsg, "", "null")
  /\ UNCHANGED <<peer, isHost, peerOwner, peerAlive, peerRoom, closing, ticks, ops, call>>

\* peer.on('error') of joinRoom: 'peer-unavailable' when the room does not
\* exist, any other type at any time before the connection is open
JoinPeerError(i, errType) ==
  /\ pending[i].kind = "join" /\ pending[i].stage \in {"peer", "conn"}
  /\ errType = "peer-unavailable" =>
       (pending[i].stage = "conn" /\ pending[i].room \notin AliveRooms)
  /\ pending' = [pending EXCEPT ![i] = [settle(@, "rejected") EXCEPT !.stage = "failed"]]
  /\ Apply(i, IF pending[i].settled = "pending"
              THEN joinRoomRejected(World(i)) ELSE World(i))
  /\ last' = Op("joinError", i, NoMsg, errType, "null")
  /\ UNCHANGED <<netVars, envVars, ticks, ops, call>>

\* the 15 s timer of joinRoom fires
JoinTimeout(i) ==
  /\ pending[i].kind = "join" /\ pending[i].timer
  /\ LET rejects == joinTimeoutRejects(pending[i].connected, connections[i])
     IN /\ pending' = [pending EXCEPT ![i] =
               [(IF rejects THEN settle(@, "rejected") ELSE @) EXCEPT !.timer = FALSE]]
        /\ Apply(i, IF rejects /\ pending[i].settled = "pending"
                    THEN joinRoomRejected(World(i)) ELSE World(i))
  /\ last' = Op("joinTimeout", i, NoMsg, "", "null")
  /\ UNCHANGED <<netVars, envVars, ticks, ops, call>>

NextConn ==
  \/ \E i \in Instances, taken \in BOOLEAN : CreateStart(i, taken)
  \/ \E i \in Instances : CreatePeerOpen(i)
  \/ \E i \in Instances, errType \in {"unavailable-id", "network"}, taken \in BOOLEAN :
       CreatePeerError(i, errType, taken)
  \/ \E i \in Instances, value \in JoinValues, room \in Pids : JoinClick(i, value, room)
  \/ \E i \in Instances : JoinPeerOpen(i)
  \/ \E i \in Instances : JoinConnOpen(i)
  \/ \E i \in Instances, errType \in {"peer-unavailable", "network"} : JoinPeerError(i, errType)
  \/ \E i \in Instances : JoinTimeout(i)
  \/ \E i \in Instances : Destroy(i)
  \/ \E l \in Pids, r \in Pids : ConnClosed(l, r)
  \/ \E p \in Pids, q \in Pids : Deliver(p, q)
  \/ \E i \in Instances, key \in Keys : KeyDown(i, key)
  \/ \E i \in Instances, key \in Keys : KeyUp(i, key)
  \/ \E i \in Instances : Tick(i)
  \/ \E i \in Instances : LoopExit(i)
  \/ \E i \in Instances, id \in Pids : TimerFire(i, id)

\* right after construction, one user operation of the run's budget spent
InitConn ==
  /\ InitGame /\ InitNet /\ InitEnv /\ InitAux
  /\ ticks = 0 /\ ops = 1
  /\ last = Op("init", 0, NoMsg, "", "null")

SpecConn == InitConn /\ [][NextConn]_vars

(***************************************************************************)
(* The room id of a join, on its own.  The fifth specification draws what *)
(* the user typed: a room id suffix of up to MaxSuffix characters, bare or *)
(* after 'hax-' in any letter case, possibly followed by a blank, or       *)
(* nothing at all.  It is handed to Network.joinRoom, or to the join       *)
(* button's handler, which hands its own result to joinRoom.               *)
(***************************************************************************)
SuffixChars == {"a", "A", "b", "1"}
Suffixes == UNION {[1..n -> SuffixChars] : n \in 1..MaxSuffix}
Prefixes ==
  {<<>>} \cup {<<h, a, x, "-">> : h \in {"h", "H"}, a \in {"a", "A"}, x \in {"x", "X"}}
RoomInputs ==
  {<<>>, <<" ">>} \cup
  {pre \o suf \o pad : pre \in Prefixes, suf \in Suffixes, pad \in {<<>>, <<" ">>}}

InitNorm ==
  /\ InitGame /\ InitNet /\ InitEnv
  /\ ticks = 0 /\ ops = 0
  /\ last = Op("init", 0, NoMsg, "", "null")
  /\ pending = [i \in Instances |-> NoCall]
  /\ \E value \in RoomInputs :
       call = [fn |-> "none", arg |-> value, done |-> FALSE, res |-> <<>>]

\* network.joinRoom(arg) up to peer.connect
CallJoinRoom ==
  /\ ~call.done
  /\ call' = [call EXCEPT !.fn = "joinRoom", !.done = TRUE,
                          !.res = normalizedRoomId(call.arg)]
  /\ UNCHANGED <<gameVars, netVars, envVars, ticks, ops, last, pending>>

\* a click on the join button with arg in the room id field
CallJoinClick ==
  /\ ~call.done
  /\ LET roomId == joinClickRoomId(call.arg)
     IN call' = [call EXCEPT !.fn = "joinClick", !.done = TRUE,
                             !.res = IF roomId = <<>> THEN <<>>
                                     ELSE normalizedRoomId(roomId)]
  /\ UNCHANGED <<gameVars, netVars, envVars, ticks, ops, last, pending>>

NextNorm == CallJoinRoom \/ CallJoinClick

SpecNorm == InitNorm /\ [][NextNorm]_vars

(***************************************************************************)
(* Physics.kick on its own.  The sixth specification draws a player and a  *)
(* ball and calls kick or kickWithExtendedRange on them once.              *)
(***************************************************************************)
\* ball.position - player.position, in fixed point: coincident, inside the
\* kick range, on its boundary (a distance of exactly 65) and outside
KickOffsets ==
  {Zero, Pt(30, 0), Pt(0, -40), Pt(-30, 40), Pt(38, 52), Pt(39, 52),
   Pt(64, 0), Pt(65, 0), Pt(0, 65), Pt(-52, -39), Pt(100, 0), Pt(60, 60),
   Vec(649, 0), Vec(0, -651), Vec(1, 0), Vec(-459, 459), Vec(460, 460),
   Pt(99, 0), Pt(60, 80), Pt(-80, -60), Pt(120, 0), Vec(999, 0), Vec(0, 1001)}
KickCooldowns == {0, 1, KickCooldownFrames}
KickBallVelocities == {Zero, Pt(3, -2), Pt(-15, 0)}
KickPlayer(cd) ==
  [createPlayer(<<>>, 1, "Host", "red") EXCEPT !.kickCooldown = cd]
KickBall(player, off, vel) ==
  [position |-> add(player.position, off), velocity |-> vel]

InitKick ==
  /\ InitGame /\ InitNet /\ InitEnv
  /\ ticks = 0 /\ ops = 0
  /\ last = Op("init", 0, NoMsg, "", "null")
  /\ pending = [i \in Instances |-> NoCall]
  /\ \E cd \in KickCooldowns, off \in KickOffsets, vel \in KickBallVelocities :
       call = [fn |-> "none",
               arg |-> [player |-> KickPlayer(cd),
                        ball |-> KickBall(KickPlayer(cd), off, vel)],
               done |-> FALSE, res |-> <<>>]

\* physics.kick(arg.player, arg.ball)
CallKick ==
  /\ ~call.done
  /\ call' = [call EXCEPT !.fn = "kick", !.done = TRUE,
                          !.res = kick(call.arg.player, call.arg.ball)]
  /\ UNCHANGED <<gameVars, netVars, envVars, ticks, ops, last, pending>>

\* physics.kickWithExtendedRange(arg.player, arg.ball)
CallKickExtended ==
  /\ ~call.done
  /\ call' = [call EXCEPT !.fn = "kickWithExtendedRange", !.done = TRUE,
                          !.res = kickWithExtendedRange(call.arg.player, call.arg.ball)]
  /\ UNCHANGED <<gameVars, netVars, envVars, ticks, ops, last, pending>>

NextKick == CallKick \/ CallKickExtended

SpecKick == InitKick /\ [][NextKick]_vars

(***************************************************************************)
(* Physics.checkGoal on its own.  The seventh specification draws a ball   *)
(* around the side boundaries and the ends of the goal band and calls      *)
(* checkGoal(ball) once.                                                   *)
(***************************************************************************)
GoalXs ==
  {-5 * Scale, 0, ballRadius * Scale - 1, ballRadius * Scale, ballRadius * Scale + 1,
   (fieldWidth \div 2) * Scale,
   (fieldWidth - ballRadius) * Scale - 1, (fieldWidth - ballRadius) * Scale,
   (fieldWidth - ballRadius) * Scale + 1, fieldWidth * Scale, (fieldWidth + 5) * Scale}
GoalYs ==
  {ballRadius * Scale, goalTop - 1, goalTop, goalTop + 1, (fieldHeight \div 2) * Scale,
   goalBottom - 1, goalBottom, goalBottom + 1, (fieldHeight - ballRadius) * Scale}
GoalVelocities == {Zero, Pt(-3, 1)}

InitGoal ==
  /\ InitGame /\ InitNet /\ InitEnv
  /\ ticks = 0 /\ ops = 0
  /\ last = Op("init", 0, NoMsg, "", "null")
  /\ pending = [i \in Instances |-> NoCall]
  /\ \E x \in GoalXs, y \in GoalYs, vel \in GoalVelocities :
       call = [fn |-> "none",
               arg |-> [ball |-> [position |-> Vec(x, y), velocity |-> vel]],
               done |-> FALSE, res |-> <<>>]

\* physics.checkGoal(arg.ball): the value returned and the ball afterwards
CallCheckGoal ==
  /\ ~call.done
  /\ call' = [call EXCEPT !.fn = "checkGoal", !.done = TRUE,
                          !.res = [team |-> checkGoal(call.arg.ball),
                                   ball |-> call.arg.ball]]
  /\ UNCHANGED <<gameVars, netVars, envVars, ticks, ops, last, pending>>

NextGoal == CallCheckGoal

SpecGoal == InitGoal /\ [][NextGoal]_vars

(***************************************************************************)
(* Physics.handlePlayerCollision on its own.  The eighth specification     *)
(* draws two players, overlapping or not, and calls                        *)
(* handlePlayerCollision(p1, p2) once.                                     *)
(***************************************************************************)
\* p2.position - p1.position: the same position, overlapping, at a distance
\* of exactly 2 * playerRadius, and apart
CollideOffsets ==
  {Zero, Vec(1, 0), Pt(10, 0), Pt(0, -30), Pt(20, 20), Pt(-35, -35), Pt(49, 0),
   Vec(499, 0), Pt(30, 40), Pt(50, 0), Pt(0, 60)}
CollideVelocities1 == {Zero, Pt(3, 0), Pt(-2, 4), Pt(0, -4)}
CollideVelocities2 == {Zero, Pt(-3, 0), Pt(4, 4)}
CollidePlayer(id, team, pos, vel) ==
  [createPlayer(<<>>, id, "Player", team) EXCEPT !.position = pos, !.velocity = vel]

InitCollide ==
  /\ InitGame /\ InitNet /\ InitEnv
  /\ ticks = 0 /\ ops = 0
  /\ last = Op("init", 0, NoMsg, "", "null")
  /\ pending = [i \in Instances |-> NoCall]
  /\ \E off \in CollideOffsets, v1 \in CollideVelocities1, v2 \in CollideVelocities2 :
       call = [fn |-> "none",
               arg |-> <<CollidePlayer(1, "red", Pt(400, 300), v1),
                         CollidePlayer(2, "blue", add(Pt(400, 300), off), v2)>>,
               done |-> FALSE, res |-> <<>>]

\* physics.handlePlayerCollision(arg[1], arg[2])
CallHandlePlayerCollision ==
  /\ ~call.done
  /\ call' = [call EXCEPT !.fn = "handlePlayerCollision", !.done = TRUE,
                          !.res = handlePlayerCollision(call.arg[1], call.arg[2])]
  /\ UNCHANGED <<gameVars, netVars, envVars, ticks, ops, last, pending>>

NextCollide == CallHandlePlayerCollision

SpecCollide == InitCollide /\ [][NextCollide]_vars

(***************************************************************************)
(* The claims.                                                             *)
(***************************************************************************)
Teams == {"red", "blue"}
Other(team) == IF team = "red" THEN "blue" ELSE "red"
\* the step was an inbound message handled by instance i
Received(i) == last'.op = "recv" /\ last'.inst = i
\* the step was a tick, a key event or an inbound message
GameStep == last'.op \in {"tick", "keydown", "keyup", "recv"}

\* C1: on every instance, no tick, key event or inbound message lowers
\* score.red or score.blue.
ScoreNeverDecreases ==
  [][GameStep =>
       \A i \in Instances : \A t \in Teams : score'[i][t] >= score[i][t]]_vars

\* C2: a host tick that detects a goal adds exactly 1 to the scorer's score
\* and 0 to the other's, puts the ball back at the centre at rest and sets
\* the countdown to 120, so that the ball it leaves is in no goal; any other
\* tick (no goal, or frozen by the countdown) leaves the score unchanged.
GoalCountsOnce ==
  [][\A i \in Instances :
       (last'.op = "tick" /\ last'.inst = i) =>
          IF last'.scorer \in Teams
          THEN /\ score'[i][last'.scorer] = score[i][last'.scorer] + 1
               /\ score'[i][Other(last'.scorer)] = score[i][Other(last'.scorer)]
               /\ ball'[i] = [position |-> Pt(500, 300), velocity |-> Zero]
               /\ countdown'[i] = 120
               /\ checkGoal(ball'[i]) = "null"
          ELSE score'[i] = score[i]]_vars

\* a host tick has just detected a goal
GoalCountsOnceWitness ==
  /\ last.op = "tick" /\ last.scorer \in Teams
  /\ isHost[last.inst]
  /\ score[last.inst][last.scorer] = 1

\* C3: a session is a room in use by its owner and the instances with an
\* open connection to it; exactly one of them has isHosting = true.
Rooms == {r \in peerRoom \cap peerAlive : peer[peerOwner[r]] = r}
Members(r) == {peerOwner[r]} \cup {peerOwner[e[1]] : e \in {f \in connOpen : f[2] = r}}
OneHostPerSession ==
  \A r \in Rooms : Cardinality({i \in Members(r) : isHost[i]}) = 1

\* C4: on a non-host the ball and the score change only in a step that
\* handles an inbound ball-update, score-update or game-state.
NonHostBallOnlyFromNetwork ==
  [][\A i \in Instances :
       (~isHost[i] /\ (ball'[i] # ball[i] \/ score'[i] # score[i])) =>
          /\ Received(i)
          /\ last'.msg.type \in {"ball-update", "score-update", "game-state"}]_vars

\* a non-host that holds the kicking player and the ball within the extended
\* range has just handled a kick message
NonHostBallWitness ==
  /\ last.op = "recv" /\ last.msg.type = "kick"
  /\ ~isHost[last.inst]
  /\ Has(players[last.inst], last.msg.data.playerId)
  /\ distance(Get(players[last.inst], last.msg.data.playerId).position,
              ball[last.inst].position) < (25 + 15 + 60) * Scale

\* C5: on the host, handling an inbound ball-update changes nothing of the
\* instance's state.
HostIgnoresBallUpdate ==
  [][\A i \in Instances :
       (Received(i) /\ last'.msg.type = "ball-update" /\ isHost[i]) =>
          /\ World(i)' = World(i)
          /\ chan'[<<i, i>>] = chan[<<i, i>>]]_vars

\* a host has just handled a ball-update that differs from its own ball
HostIgnoresBallUpdateWitness ==
  /\ last.op = "recv" /\ last.msg.type = "ball-update"
  /\ isHost[last.inst]
  /\ last.msg.data # ball[last.inst]

\* C6: gamePhase only moves forward along menu, lobby, playing.
Rank(phase) == CASE phase = "menu" -> 0 [] phase = "lobby" -> 1 [] phase = "playing" -> 2
PhaseOnlyForward ==
  [][\A i \in Instances : Rank(gamePhase'[i]) >= Rank(gamePhase[i])]_vars

\* C7: handling a player-update overwrites position, velocity, team and
\* isKicking of the entry with the message's id when that entry exists and
\* the id is not localPlayerId, and nothing else; otherwise the instance's
\* whole state is unchanged and no player is added.
PlayerUpdateOnlyKnownRemote ==
  [][\A i \in Instances :
       (Received(i) /\ last'.msg.type = "player-update") =>
          LET d == last'.msg.data
              known == \E k \in 1..Len(players[i]) : players[i][k].id = d.id
          IN IF known /\ d.id # localPlayerId[i]
             THEN /\ Len(players'[i]) = Len(players[i])
                  /\ \A k \in 1..Len(players[i]) :
                       IF players[i][k].id = d.id
                       THEN /\ players'[i][k].position = d.position
                            /\ players'[i][k].velocity = d.velocity
                            /\ players'[i][k].team = d.team
                            /\ players'[i][k].isKicking = d.isKicking
                            /\ players'[i][k].id = d.id
                            /\ players'[i][k].name = players[i][k].name
                            /\ players'[i][k].kickCooldown = players[i][k].kickCooldown
                       ELSE players'[i][k] = players[i][k]
                  /\ [World(i) EXCEPT !.players = <<>>]' = [World(i) EXCEPT !.players = <<>>]
             ELSE World(i)' = World(i)]_vars

\* an instance has just handled a player-update for an id it does not hold
PlayerUpdateUnknownWitness ==
  /\ last.op = "recv" /\ last.msg.type = "player-update"
  /\ \A k \in 1..Len(players[last.inst]) : players[last.inst][k].id # last.msg.data.id
  /\ Len(players[last.inst]) > 0

\* the position and the velocity of the entry of localPlayerId, <<>> if none
LocalMotion(i) ==
  LET own == {k \in 1..Len(players[i]) : players[i][k].id = localPlayerId[i]}
  IN IF own = {} THEN <<>>
     ELSE LET k == CHOOSE k \in own : TRUE
          IN <<players[i][k].position, players[i][k].velocity>>

ResetSlot(ps, k) ==
  LET idx == Cardinality({j \in 1..(k - 1) : ps[j].team = ps[k].team})
      y == 300 + (IF idx < 2 THEN -60 ELSE 60) * (IF idx % 2 = 0 THEN 1 ELSE -1)
             + ((idx \div 2) * 100 - 50)
  IN IF ps[k].team = "red" THEN Pt(150 + (idx % 2) * 80, y)
     ELSE Pt(1000 - 150 - (idx % 2) * 80, y)

\* C9: a start-game key in the lobby changes nothing on a non-host; on the
\* host it sets countdown to 180, isPlaying to true and the phase to
\* playing, resets the ball and every player's position and velocity, and
\* sends one game-state with that state on every open connection.  No key
\* event or tick moves an instance into playing in any other way.
HostStartsGame ==
  [][\A i \in Instances :
       /\ (last'.op = "keydown" /\ last'.inst = i /\ last'.key = " "
             /\ gamePhase[i] = "lobby") =>
            IF isHost[i]
            THEN /\ countdown'[i] = 180 /\ isPlaying'[i] /\ gamePhase'[i] = "playing"
                 /\ ball'[i] = [position |-> Pt(500, 300), velocity |-> Zero]
                 /\ Len(players'[i]) = Len(players[i])
                 /\ \A k \in 1..Len(players[i]) :
                      /\ players'[i][k].velocity = Zero
                      /\ players'[i][k].position = ResetSlot(players[i], k)
                      /\ players'[i][k].id = players[i][k].id
                      /\ players'[i][k].team = players[i][k].team
                 /\ score'[i] = score[i]
                 /\ \A e \in DOMAIN chan :
                      chan'[e] =
                        IF e \in Targets(connections[i], connOpen)
                        THEN Append(chan[e],
                               GameStateMsg(players'[i], ball'[i], score'[i], TRUE, 180))
                        ELSE chan[e]
            ELSE World(i)' = World(i) /\ chan' = chan
       /\ (gamePhase[i] # "playing" /\ gamePhase'[i] = "playing" /\ ~Received(i)) =>
            /\ last'.op = "keydown" /\ last'.inst = i /\ last'.key = " "
            /\ isHost[i] /\ gamePhase[i] = "lobby"]_vars

\* a host with an open connection has just started the game: the game-state
\* is the last message in flight to its peer
HostStartsGameWitness ==
  /\ last.op = "keydown" /\ last.key = " "
  /\ isHost[last.inst] /\ countdown[last.inst] = 180
  /\ Len(players[last.inst]) = 2
  /\ \E e \in Targets(connections[last.inst], connOpen) :
       /\ Len(chan[e]) > 0
       /\ chan[e][Len(chan[e])].type = "game-state"
       /\ chan[e][Len(chan[e])].data.countdown = 180

\* C10: a non-host leaves the lobby for playing only in a step that handles
\* an inbound game-state whose isPlaying is true.
NonHostStartsOnGameState ==
  [][\A i \in Instances :
       (~isHost[i] /\ gamePhase[i] = "lobby" /\ gamePhase'[i] = "playing") =>
          /\ Received(i)
          /\ last'.msg.type = "game-state"
          /\ last'.msg.data.isPlaying]_vars

\* a non-host is in playing after handling the game-state of the host's start
NonHostStartsWitness ==
  /\ last.op = "recv" /\ last.msg.type = "game-state"
  /\ ~isHost[last.inst]
  /\ gamePhase[last.inst] = "playing"
  /\ last.msg.data.countdown = 180

\* C11: a tick run while countdown > 0 lowers countdown by exactly 1 and
\* leaves every player, the ball and the score as they were; the host hands
\* exactly one game-state (and nothing else) to each open connection, a
\* non-host sends nothing.
FrozenTick ==
  [][\A i \in Instances :
       (last'.op = "tick" /\ last'.inst = i /\ countdown[i] > 0) =>
          /\ countdown'[i] = countdown[i] - 1
          /\ Len(players'[i]) = Len(players[i])
          /\ \A k \in 1..Len(players[i]) :
               /\ players'[i][k].position = players[i][k].position
               /\ players'[i][k].velocity = players[i][k].velocity
               /\ players'[i][k].kickCooldown = players[i][k].kickCooldown
          /\ ball'[i] = ball[i]
          /\ score'[i] = score[i]
          /\ \A e \in DOMAIN chan :
               IF isHost[i] /\ e \in Targets(connections[i], connOpen)
               THEN /\ Len(chan'[e]) = Len(chan[e]) + 1
                    /\ SubSeq(chan'[e], 1, Len(chan[e])) = chan[e]
                    /\ chan'[e][Len(chan'[e])].type = "game-state"
                    /\ chan'[e][Len(chan'[e])].data.countdown = countdown[i] - 1
               ELSE chan'[e] = chan[e]]_vars

\* a non-host has just run a frozen tick, after the host ran one with the
\* guest connected
FrozenTickWitness ==
  /\ last.op = "tick" /\ ~isHost[last.inst]
  /\ countdown[last.inst] = 179
  /\ Len(players[last.inst]) = 2
  /\ \E j \in Instances :
       /\ isHost[j] /\ countdown[j] = 179
       /\ Targets(connections[j], connOpen) # {}

\* C12: while the host's countdown is > 0 no tick, key event or inbound
\* message changes the host's ball.
FrozenBall ==
  [][GameStep =>
       \A i \in Instances :
         (isHost[i] /\ countdown[i] > 0) => ball'[i] = ball[i]]_vars

\* C13: once the messages in flight between a guest and its host are
\* delivered, a guest whose room holds nobody but the host and itself has
\* handled the host's snapshot: its player map has exactly two entries, the
\* host's and its own, and the host's map has the same ids.
\* HostOf(i) is the room peer of the only connection of guest i, when that
\* room is in use by its owner and its owner is connected to this guest alone.
HostOf(i) ==
  {r \in peerRoom :
     /\ peer[i] # NoPeer /\ peer[i] \notin peerRoom
     /\ connections[i] = {<<r, peer[i]>>}
     /\ peer[peerOwner[r]] = r
     /\ connections[peerOwner[r]] = {<<peer[i], r>>}}
LateJoinCatchUp ==
  \A i \in Instances : \A r \in HostOf(i) :
    (chan[<<r, peer[i]>>] = <<>> /\ chan[<<peer[i], r>>] = <<>>) =>
       /\ Len(players[i]) = 2
       /\ Ids(players[i]) = {r, peer[i]}
       /\ Ids(players[peerOwner[r]]) = Ids(players[i])

\* C14: joinRoom connects to 'hax-' followed by the upper-cased suffix for
\* every input that is a suffix, bare or after 'hax-' in any letter case,
\* and normalising that id again gives the same id.
CanonicalRoomId(value) ==
  LET t == trim(value)
      suffix == IF startsWith(toUpperCase(t), HaxUpper) THEN SubSeq(t, 5, Len(t)) ELSE t
  IN HaxLower \o toUpperCase(suffix)
RoomIdCanonical ==
  (call.done /\ call.fn \in {"joinRoom", "joinClick"} /\ trim(call.arg) # <<>>) =>
     /\ call.res = CanonicalRoomId(call.arg)
     /\ normalizedRoomId(call.res) = call.res

\* the steps of a createRoom or joinRoom call
TransportOps ==
  {"createStart", "createOpen", "createError",
   "joinClick", "joinPeerOpen", "joinConnOpen", "joinError", "joinTimeout"}

\* C15: of the steps of a createRoom or joinRoom call, only the one that
\* resolves the promise changes the phase, localPlayerId or the players map
\* of the instance, and it enters the lobby; a rejection leaves them as they
\* were.  A join click with an empty room id makes no Peer and no call.
FailedCallKeepsState ==
  [][\A i \in Instances :
       (last'.inst = i /\ last'.op \in TransportOps) =>
          LET resolves == pending[i].settled = "pending" /\ pending'[i].settled = "resolved"
          IN /\ ~resolves =>
                  /\ gamePhase'[i] = gamePhase[i]
                  /\ localPlayerId'[i] = localPlayerId[i]
                  /\ players'[i] = players[i]
             /\ resolves => gamePhase'[i] = "lobby"
             /\ (last'.op = "joinClick" /\ last'.key = "rejected") =>
                  /\ pending' = pending
                  /\ peer' = peer /\ peerOwner' = peerOwner /\ connOpen' = connOpen]_vars

\* a join has just been rejected on an instance that is in a game it hosts
FailedCallWitness ==
  /\ last.op \in {"joinError", "joinTimeout"}
  /\ pending[last.inst].settled = "rejected"
  /\ gamePhase[last.inst] = "playing"
  /\ localPlayerId[last.inst] \in peerRoom
  /\ Len(players[last.inst]) = 1

\* C16: when the 15 s timer of a joinRoom fires, the call is settled: it is
\* rejected if the connection has not opened, and stays resolved if it has.
JoinSettlesAtTimeout ==
  [][\A i \in Instances :
       (last'.op = "joinTimeout" /\ last'.inst = i) =>
          IF pending[i].connected
          THEN pending'[i].settled = "resolved"
          ELSE pending'[i].settled = "rejected"]_vars

\* C17: an 'unavailable-id' error of createRoom leaves the promise pending
\* and draws another id; any other error rejects it without another draw;
\* when the Peer opens under a free id the promise resolves and the instance
\* is host, with that id as its peer and its local player id.
CollisionRetried ==
  [][\A i \in Instances :
       (last'.inst = i /\ pending[i].settled = "pending") =>
          /\ (last'.op = "createError" /\ last'.key = "unavailable-id") =>
               /\ pending'[i].settled = "pending"
               /\ pending'[i].kind = "create" /\ pending'[i].stage = "peer"
               /\ pending'[i].tries = pending[i].tries + 1
               /\ isHost'[i] = isHost[i] /\ gamePhase'[i] = gamePhase[i]
          /\ (last'.op = "createError" /\ last'.key # "unavailable-id") =>
               /\ pending'[i].settled = "rejected"
               /\ pending'[i].tries = pending[i].tries
               /\ pending'[i].stage = "failed"
          /\ last'.op = "createOpen" =>
               /\ pending'[i].settled = "resolved"
               /\ isHost'[i]
               /\ peer'[i] \notin peerAlive
               /\ peer'[i] \in peerRoom' \cap peerAlive'
               /\ peerOwner'[peer'[i]] = i
               /\ localPlayerId'[i] = peer'[i]]_vars

\* a createRoom has resolved on its second id, the first one being taken
CollisionRetriedWitness ==
  /\ last.op = "createOpen"
  /\ pending[last.inst].tries = 2
  /\ pending[last.inst].settled = "resolved"
  /\ isHost[last.inst]
  /\ Cardinality(peerRoom \cap peerAlive) = 2

\* C18: when the 'close' event of a connection to peer r is handled by an
\* instance, on a connection it accepted or on the one it opened to a host,
\* the instance holds no Player with id r afterwards.
CloseRemovesPlayer ==
  [][(last'.op = "closed" \/ (last'.op = "recv" /\ last'.msg.type = "player-leave")) =>
       \A e \in closing \ closing' :
         \A k \in 1..Len(players'[peerOwner[e[1]]]) :
           players'[peerOwner[e[1]]][k].id # e[2]]_vars

\* C19: once no message and no 'close' event is in flight, the players map
\* of an instance in a session holds exactly one Player for each participant
\* connected to that session and no other.
Participants(room) ==
  {room} \cup {g \in Pids : <<g, room>> \in connOpen /\ <<room, g>> \in connOpen}
SessionRoom(i) ==
  IF peer[i] \in peerRoom THEN {peer[i]}
  ELSE {r \in peerRoom : <<peer[i], r>> \in connOpen}
PlayersMatchSession ==
  ((\A e \in DOMAIN chan : chan[e] = <<>>) /\ closing = {}) =>
     \A i \in Instances : \A r \in SessionRoom(i) :
       peer[i] # NoPeer =>
         /\ Ids(players[i]) = Participants(r)
         /\ Len(players[i]) = Cardinality(Participants(r))

\* C20: kick(player, ball) returns false and changes nothing when the
\* player's kickCooldown is positive or the distance from player to ball is
\* at least playerRadius + ballRadius + 25; otherwise it returns true, sets
\* kickCooldown to 20 and adds to the ball's velocity an impulse of magnitude
\* kickForce (to the resolution of the grid) along the direction from the
\* player to the ball.
KickRefused(player, kball) ==
  LET v == subtract(kball.position, player.position)
      range == (playerRadius + ballRadius + KickRangeExtra) * Scale
  IN player.kickCooldown > 0 \/ v.x * v.x + v.y * v.y >= range * range
KickImpulse(player, kball, after) ==
  LET v == subtract(kball.position, player.position)
      d == subtract(after.velocity, kball.velocity)
      m2 == d.x * d.x + d.y * d.y
      f == kickForce * Scale
      cross == d.x * v.y - d.y * v.x
  IN /\ (f - 1) * (f - 1) <= m2 /\ m2 <= (f + 1) * (f + 1)
     /\ d.x * v.x + d.y * v.y > 0
     /\ cross * cross <= v.x * v.x + v.y * v.y
     /\ after.position = kball.position
KickContract ==
  (call.fn = "kick" /\ call.done) =>
     LET player == call.arg.player
         kball == call.arg.ball
         res == call.res
     IN IF KickRefused(player, kball)
        THEN ~res.ok /\ res.player = player /\ res.ball = kball
        ELSE /\ res.ok
             /\ res.player.kickCooldown = 20
             /\ KickImpulse(player, kball, res.ball)

\* C21: kickWithExtendedRange(player, ball) returns true, whatever the
\* player's kickCooldown, and adds the kickForce impulse along the direction
\* from player to ball when their distance is below playerRadius +
\* ballRadius + 60; at a distance of at least that it returns false and
\* changes nothing.
ExtendedOutOfRange(player, kball) ==
  LET v == subtract(kball.position, player.position)
      range == (playerRadius + ballRadius + ExtendedRangeExtra) * Scale
  IN v.x * v.x + v.y * v.y >= range * range
KickExtendedContract ==
  (call.fn = "kickWithExtendedRange" /\ call.done) =>
     LET player == call.arg.player
         kball == call.arg.ball
         res == call.res
     IN IF ExtendedOutOfRange(player, kball)
        THEN ~res.ok /\ res.player = player /\ res.ball = kball
        ELSE res.ok /\ KickImpulse(player, kball, res.ball)

\* C22: checkGoal(ball) returns 'blue' exactly when x - radius < 0 and
\* 'red' exactly when x + radius > fieldWidth, each with goalTop < y <
\* goalBottom, and null in every other case; the ball is not modified.
StrictlyInBand(y) ==
  2 * y > (fieldHeight - goalWidth) * Scale /\ 2 * y < (fieldHeight + goalWidth) * Scale
WithinField(pos, radius) ==
  /\ radius * Scale <= pos.x /\ pos.x <= (fieldWidth - radius) * Scale
  /\ radius * Scale <= pos.y /\ pos.y <= (fieldHeight - radius) * Scale
BallWithinField(pos) ==
  \/ WithinField(pos, ballRadius)
  \/ /\ StrictlyInBand(pos.y)
     /\ ballRadius * Scale <= pos.y /\ pos.y <= (fieldHeight - ballRadius) * Scale
TickKeepsInField ==
  [][last'.op = "tick" =>
       LET i == last'.inst
       IN /\ \A k \in 1..Len(players'[i]) : WithinField(players'[i][k].position, playerRadius)
          /\ BallWithinField(ball'[i].position)]_vars

\* C24: for two players at a distance below 2 * playerRadius, the same
\* position included, after handlePlayerCollision their distance is
\* 2 * playerRadius, both were moved by the same amount in opposite
\* directions, and their relative velocity along the centre line is <= 0
\* (all to the resolution of the grid).
Dist2(a, b) == (a.x - b.x) * (a.x - b.x) + (a.y - b.y) * (a.y - b.y)
Resolved(a1, a2, r1, r2) ==
  LET minDist == 2 * playerRadius * Scale
      normal == normalize(subtract(a2.position, a1.position))
  IN /\ (minDist - 2) * (minDist - 2) <= Dist2(r1.position, r2.position)
     /\ Dist2(r1.position, r2.position) <= (minDist + 2) * (minDist + 2)
     /\ subtract(r1.position, a1.position) = subtract(a2.position, r2.position)
     \* each velocity component is truncated to the grid: up to 4 grid steps
     /\ dot(subtract(r1.velocity, r2.velocity), normal) <= 4
Overlapping(a1, a2) ==
  Dist2(a1.position, a2.position) < (2 * playerRadius * Scale) * (2 * playerRadius * Scale)
CollisionResolvesEveryOverlap ==
  (call.fn = "handlePlayerCollision" /\ call.done /\ Overlapping(call.arg[1], call.arg[2])) =>
     Resolved(call.arg[1], call.arg[2], call.res[1], call.res[2])
\* C24, amended: the same for two players at a distance below
\* 2 * playerRadius and above 0; two players at the same position, like two
\* players that do not overlap, are left as they were.
CollisionResolvesOverlap ==
  (call.fn = "handlePlayerCollision" /\ call.done) =>
     IF Overlapping(call.arg[1], call.arg[2]) /\ call.arg[1].position # call.arg[2].position
     THEN Resolved(call.arg[1], call.arg[2], call.res[1], call.res[2])
     ELSE call.res = call.arg
\* two overlapping players that approach each other were separated
CollisionResolvesWitness ==
  /\ call.fn = "handlePlayerCollision" /\ call.done
  /\ Overlapping(call.arg[1], call.arg[2])
  /\ call.arg[1].position # call.arg[2].position
  /\ call.res[1].velocity # call.arg[1].velocity
  /\ call.res[2].position # call.arg[2].position

\* C25: a keydown of the kick key in 'playing', with the key not held and
\* the local player's kickCooldown <= 0, sends one kick message to every
\* connected peer and sets the local player's kickCooldown to 20 and
\* isKicking to true, wherever the ball is; a keydown of the kick key that
\* is held, with kickCooldown > 0 or outside 'playing' sends no kick message
\* and changes no kickCooldown.
KickKeyFires(i) ==
  /\ gamePhase[i] = "playing" /\ ~input[i].kick
  /\ Has(players[i], localPlayerId[i])
  /\ Get(players[i], localPlayerId[i]).kickCooldown <= 0
KickKeyIdle(i) ==
  \/ gamePhase[i] # "playing"
  \/ input[i].kick
  \/ Has(players[i], localPlayerId[i]) /\ Get(players[i], localPlayerId[i]).kickCooldown > 0
KickCount(q) == Cardinality({k \in 1..Len(q) : q[k].type = "kick"})
KickKeyEdgeTriggered ==
  [][(last'.op = "keydown" /\ last'.key = " ") =>
       LET i == last'.inst
       IN /\ KickKeyFires(i) =>
               /\ \A e \in DOMAIN chan :
                    chan'[e] = IF e \in Targets(connections[i], connOpen)
                               THEN Append(chan[e], KickMsg(localPlayerId[i]))
                               ELSE chan[e]
               /\ Get(players'[i], localPlayerId[i]).kickCooldown = 20
               /\ Get(players'[i], localPlayerId[i]).isKicking
          /\ KickKeyIdle(i) =>
               /\ \A e \in DOMAIN chan : KickCount(chan'[e]) = KickCount(chan[e])
               /\ Len(players'[i]) = Len(players[i])
               /\ \A k \in 1..Len(players[i]) :
                    players'[i][k].kickCooldown = players[i][k].kickCooldown]_vars
\* a kick key went down with the ball out of range and a peer connected:
\* the kick message is in flight and the cooldown runs
KickKeyWitness ==
  /\ last.op = "keydown" /\ last.key = " "
  /\ gamePhase[last.inst] = "playing"
  /\ Has(players[last.inst], localPlayerId[last.inst])
  /\ Get(players[last.inst], localPlayerId[last.inst]).kickCooldown = 20
  /\ Dist2(Get(players[last.inst], localPlayerId[last.inst]).position,
           ball[last.inst].position) > (100 * Scale) * (100 * Scale)
  /\ \E e \in Targets(connections[last.inst], connOpen) :
       chan[e] # <<>> /\ chan[e][Len(chan[e])] = KickMsg(localPlayerId[last.inst])

\* C26: for every message about to be delivered to an instance, hosting or
\* not, handling the message twice in succession leaves the instance's
\* state as handling it once does.
HandledOnce(i, message) == onMessage(World(i), isHost[i], message).w
HandledTwice(i, message) == onMessage(HandledOnce(i, message), isHost[i], message).w
PayloadsIdempotent ==
  \A e \in DOMAIN chan :
    (chan[e] # <<>> /\ <<e[2], e[1]>> \in connOpen) =>
       HandledTwice(peerOwner[e[2]], Head(chan[e])) = HandledOnce(peerOwner[e[2]], Head(chan[e]))

\* C26, amended: the same for every message but a kick about to be
\* delivered to a host, which applies the kick impulse at each handling.
Deliverable(e) == chan[e] # <<>> /\ <<e[2], e[1]>> \in connOpen
OverwritePayloadsIdempotent ==
  \A e \in DOMAIN chan :
    (Deliverable(e) /\ ~(Head(chan[e]).type = "kick" /\ isHost[peerOwner[e[2]]])) =>
       HandledTwice(peerOwner[e[2]], Head(chan[e])) = HandledOnce(peerOwner[e[2]], Head(chan[e]))
\* a score-update that changes the receiver's score is about to be delivered
OverwritePayloadsWitness ==
  \E e \in DOMAIN chan :
    /\ Deliverable(e)
    /\ Head(chan[e]).type = "score-update"
    /\ HandledOnce(peerOwner[e[2]], Head(chan[e])).score # score[peerOwner[e[2]]]

\* C27: once the host's ball and score no longer change under its ticks
\* and an instance connected to the host's room has handled the host's
\* latest ball-update, nothing being in flight between the two, that
\* instance's ball and score equal the host's.
ConnectedGuests ==
  {g \in Instances \ {HostInst} :
     <<peer[g], HostPid>> \in connOpen /\ <<HostPid, peer[g]>> \in connOpen}
HostAtRest ==
  /\ peer[HostInst] = HostPid /\ isHost[HostInst]
  /\ gamePhase[HostInst] = "playing" /\ countdown[HostInst] = 0
  /\ update(World(HostInst), TRUE).w.ball = ball[HostInst]
  /\ update(World(HostInst), TRUE).w.score = score[HostInst]
HandledLatestBroadcast(g) ==
  /\ last.op = "recv" /\ last.inst = g /\ last.msg.type = "ball-update"
  /\ chan[<<HostPid, peer[g]>>] = <<>> /\ chan[<<peer[g], HostPid>>] = <<>>
BroadcastMakesConsistent ==
  \A g \in ConnectedGuests :
    (HostAtRest /\ HandledLatestBroadcast(g)) =>
       ball[g] = ball[HostInst] /\ score[g] = score[HostInst]

\* C28: whenever, in a host tick with the countdown over, updateBall leaves
\* the ball's edge beyond the left or the right boundary with y strictly
\* inside the goal band, that tick adds one to the score of the team the
\* goal is for: blue at the left boundary, red at the right one.
GoalsNotMissed ==
  [][(last'.op = "tick" /\ isHost[last'.inst] /\ countdown[last'.inst] = 0) =>
       LET i == last'.inst
           pos == updateBall(ball[i]).position
       IN /\ (pos.x - ballRadius * Scale < 0 /\ StrictlyInBand(pos.y)) =>
               score'[i].blue = score[i].blue + 1
          /\ (pos.x + ballRadius * Scale > fieldWidth * Scale /\ StrictlyInBand(pos.y)) =>
               score'[i].red = score[i].red + 1]_vars

\* C29: a start of the game by a host puts a game-state with isPlaying true
\* in flight to every instance connected to it; a host whose game is on
\* answers a player-join with one; such a message stays in flight, while the
\* connection is open, until its receiver handles it; and an instance in the
\* lobby that handles it is in playing afterwards with its game loop started.
LinksTo(h, g) ==
  {c \in connections[h] :
     /\ peerOwner[c[1]] = g /\ peerOwner[c[2]] = h
     /\ <<c[2], c[1]>> \in connOpen /\ <<c[1], c[2]>> \in connOpen}
HasStart(q) ==
  \E k \in 1..Len(q) : q[k].type = "game-state" /\ q[k].data.isPlaying
StartInFlight(c) == HasStart(chan[<<c[2], c[1]>>])
AwaitsStart(h, g) ==
  /\ h # g /\ isHost[h] /\ gamePhase[h] = "playing" /\ gamePhase[g] = "lobby"
  /\ LinksTo(h, g) # {}
StartReachesGuests ==
  [][/\ \A h \in Instances : \A g \in Instances \ {h} :
          (/\ last'.inst = h /\ isHost[h]
           /\ \/ last'.op = "keydown" /\ last'.key = " " /\ gamePhase[h] = "lobby"
              \/ last'.op = "recv" /\ last'.msg.type = "player-join" /\ isPlaying[h]) =>
            \A c \in LinksTo(h, g) : StartInFlight(c)'
     /\ \A e \in Pids \X Pids :
          (HasStart(chan[e]) /\ e \in connOpen' /\ Reverse(e) \in connOpen') =>
            \/ HasStart(chan'[e])
            \/ /\ last'.op = "recv" /\ last'.inst = peerOwner[e[2]]
               /\ last'.msg.type = "game-state" /\ last'.msg.data.isPlaying
     /\ \A g \in Instances :
          (last'.op = "recv" /\ last'.inst = g /\ last'.msg.type = "game-state"
             /\ last'.msg.data.isPlaying /\ gamePhase[g] = "lobby") =>
            gamePhase'[g] = "playing" /\ loops'[g] > 0]_vars
StartReachesWitness ==
  \E h \in Instances, g \in Instances :
    /\ AwaitsStart(h, g) /\ ~isHost[g]
    /\ last.op = "keydown" /\ last.key = " " /\ last.inst = h
    /\ \E c \in LinksTo(h, g) : StartInFlight(c)

\* C30: no message is in flight from an instance to itself, and when an
\* instance handles a kick that names its own local player its ball is left
\* as it was: the kick key gave the ball its one impulse already.
OwnKickAppliedOnce ==
  [][/\ \A e \in Pids \X Pids :
          chan'[e] # <<>> => peerOwner'[e[1]] # peerOwner'[e[2]]
     /\ (last'.op = "recv" /\ last'.msg.type = "kick"
           /\ last'.msg.data.playerId = localPlayerId[last'.inst]) =>
          ball'[last'.inst] = ball[last'.inst]]_vars

\* C31: the local player's kickCooldown goes down only in a tick of its
\* instance out of a freeze, and then by one: no handled message lowers it.
\* A key press sends a kick only with the cooldown at 0 or below.
LocalCooldown(ps, id) == Get(ps, id).kickCooldown
CooldownOnlyTicksDown ==
  [][\A i \in Instances :
       (Has(players[i], localPlayerId[i]) /\ Has(players'[i], localPlayerId[i])
          /\ localPlayerId'[i] = localPlayerId[i]) =>
         LET before == LocalCooldown(players[i], localPlayerId[i])
             after == LocalCooldown(players'[i], localPlayerId[i])
         IN /\ after < before =>
                 /\ last'.op = "tick" /\ last'.inst = i /\ countdown[i] = 0
                 /\ after = before - 1
            /\ (last'.op = "keydown" /\ last'.inst = i
                  /\ \E e \in DOMAIN chan : KickCount(chan'[e]) > KickCount(chan[e])) =>
                 before <= 0]_vars

\* C32: an instance in lobby or in playing has its local player in its
\* players map.
LocalPlayerPresent ==
  \A i \in Instances :
    gamePhase[i] \in {"lobby", "playing"} => Has(players[i], localPlayerId[i])

\* C33: on an instance that is not hosting, a tick or a handled message
\* that finds the countdown above 0 leaves it equal or lower, unless it sets
\* the countdown a kickoff or a goal begins a freeze with.
GuestCountdownNeverIncreases ==
  [][\A g \in Instances :
       (~isHost[g] /\ last'.inst = g /\ last'.op \in {"tick", "recv"}
          /\ countdown[g] > 0 /\ countdown'[g] \notin {StartCountdown, GoalCountdown}) =>
         countdown'[g] <= countdown[g]]_vars

\* C34: no instance has more than one gameLoop callback scheduled: no
\* startGameLoop runs while a loop started earlier is still scheduled.
AtMostOneLoop ==
  \A i \in Instances : loops[i] <= 1

====
